---- MODULE Spec2Model ----
(***************************************************************************)
(* A model of the Zephyria proof-of-authority consensus engine             *)
(* (core/vm/contracts_lightclient.go): header verification against the     *)
(* validator snapshot, the seal scheduler, batch header verification and   *)
(* the system-transaction tail built and checked at block finalization.    *)
(***************************************************************************)
EXTENDS Integers, Sequences, FiniteSets, TLC

VARIABLES
    chain,      \* canonical headers; chain[n+1] is the header of block n
    now,        \* wall clock, seconds (time.Now().Unix())
    fakeDiff,   \* Zephyria.fakeDiff
    val,        \* Zephyria.val, the local validator set by Authorize
    vHeader,    \* the header last handed to VerifyHeader / VerifySeal
    vErr,       \* the error it returned
    vOp,        \* which entry point produced vErr
    sealPc,     \* position of the Seal call and of its detached wait task
    sealHdr,    \* the header being sealed
    stop,       \* the stop channel of Seal: TRUE once closed
    sealOut,    \* blocks delivered to the results sink of Seal
    sealRet,    \* the value Seal returned
    stopSeen,   \* TRUE once a select of the wait task took the stop case
    sealWake,   \* the time at which the timer the wait task waits on fires
    batch,      \* the headers given to VerifyHeaders
    vhPc,       \* position of the VerifyHeaders worker
    vhIdx,      \* the worker's loop index i
    vhErr,      \* the worker's err, the result of verifyHeader on header i
    abort,      \* the abort channel of VerifyHeaders: TRUE once closed
    results,    \* the values sent on the results channel of VerifyHeaders, in order
    abortSeen,  \* TRUE once the worker's select took the abort case
    fin,        \* the last finalization or snapshot call: its inputs and what it produced
    epoch,      \* p.config.Epoch
    recentSnaps,\* p.recentSnaps, the snapshots held in memory
    db,         \* the snapshots stored in p.db
    period,     \* p.config.period
    sealTxs,    \* whether the block handed to Seal has transactions
    sealSeen,   \* the highest verified header that the wait task of Seal read
    lock,       \* p.lock: whether the write lock is held, and the number of read locks
    authPc,     \* position of an Authorize call in progress and its arguments
    signFn,     \* p.signFn, named by the account it signs for
    signTxFn    \* p.signTxFn, named by the account it signs for

vars == <<chain, now, fakeDiff, val, vHeader, vErr, vOp, sealPc, sealHdr, stop,
          sealOut, sealRet, stopSeen, sealWake, batch, vhPc, vhIdx, vhErr, abort, results, abortSeen, fin,
          epoch, recentSnaps, db, period, sealTxs, sealSeen, lock, authPc, signFn, signTxFn>>

chainVars == <<chain, now, fakeDiff, val>>
verifyVars == <<vHeader, vErr, vOp>>
sealVars == <<sealPc, sealHdr, stop, sealOut, sealRet, stopSeen, sealWake, sealTxs,
              sealSeen>>
batchVars == <<batch, vhPc, vhIdx, vhErr, abort, results, abortSeen>>
storeVars == <<epoch, recentSnaps, db, period>>
lockVars == <<lock, authPc, signFn, signTxFn>>

----------------------------------------------------------------------------
(* Bounds of the model *)

NumAddr == 3
MaxNumber == 3
MaxTime == 4
MaxImports == 2
MaxBatch == 2

(* Program constants *)

extraVanity == 32
extraSeal == 65
validatorBytesLength == 20
defaultEpochLength == 30000
initialBackOffTime == 1
wiggleTime == 1
processBackOffTime == 1
systemRewardPercent == 4
diffInTurn == 2
diffNoTurn == 1

Addrs == 1 .. NumAddr
BadSig == 0            \* a seal from which no address can be recovered
NoAddr == 0            \* common.Address{}
NilDiff == 0           \* header.Difficulty == nil
Nil == "nil"           \* the nil error
ZeroHash == [number |-> -2]     \* common.Hash{}
UnknownHash == [number |-> -3]  \* the hash of a header the chain does not hold

Epoch == epoch                \* p.config.Epoch
Period == 1                   \* p.config.Period

errUnknownBlock == "errUnknownBlock"
errMissingVanity == "errMissingVanity"
errMissingSignature == "errMissingSignature"
errExtraValidators == "errExtraValidators"
errInvalidSpanValidators == "errInvalidSpanValidators"
errInvalidMixDigest == "errInvalidMixDigest"
errInvalidUncleHash == "errInvalidUncleHash"
errInvalidDifficulty == "errInvalidDifficulty"
errWrongDifficulty == "errWrongDifficulty"
errOutOfRangeChain == "errOutOfRangeChain"
errUnauthorizedValidator == "errUnauthorizedValidator"
errCoinBaseMisMatch == "errCoinBaseMisMatch"
errRecentlySigned == "errRecentlySigned"
ErrFutureBlock == "ErrFutureBlock"
ErrUnknownAncestor == "ErrUnknownAncestor"
errInvalidSignature == "errInvalidSignature"
errGenesisExtra == "invalid extra-data for genesis block"
errBaseFee == "invalid baseFee"
errWithdrawals == "invalid withdrawalsHash"
errGasLimit == "invalid gasLimit"
errGasUsed == "invalid gasUsed"
errGasBound == "invalid gas limit"
panicNilDifficulty == "panic: nil difficulty"

----------------------------------------------------------------------------
(* Headers.  Hash is the identity of the header's content; the seal is     *)
(* abstracted to the address that secp256k1 recovery yields from it.       *)

Hash(h) == h

RECURSIVE SortAsc(_)
SortAsc(S) ==
    IF S = {} THEN <<>>
    ELSE LET m == CHOOSE x \in S : \A y \in S : x <= y
         IN <<m>> \o SortAsc(S \ {m})

SeqToSet(s) == {s[i] : i \in 1 .. Len(s)}

GenesisHeader(vs) ==
    [number |-> 0, parentHash |-> ZeroHash, coinbase |-> NoAddr, signer |-> BadSig,
     difficulty |-> diffNoTurn, time |-> 0,
     extraLen |-> extraVanity + validatorBytesLength * Cardinality(vs) + extraSeal,
     extraVals |-> SortAsc(vs), mixDigest |-> 0, uncleHash |-> "empty",
     baseFee |-> Nil, withdrawalsHash |-> Nil, gasLimit |-> 8192, gasUsed |-> 0]

NoHeader == [number |-> -1]  \* a nil *types.Header

(* chain.GetHeader(hash, number) and chain.GetHeaderByNumber(number) *)
GetHeader(ch, hash, number) ==
    IF number >= 0 /\ number < Len(ch) /\ Hash(ch[number + 1]) = hash
    THEN ch[number + 1] ELSE NoHeader

GetHeaderByNumber(ch, number) ==
    IF number >= 0 /\ number < Len(ch) THEN ch[number + 1] ELSE NoHeader

CurrentHeader(ch) == ch[Len(ch)]

----------------------------------------------------------------------------
(* The validator snapshot (snapshot.go is not part of the sources; its     *)
(* operations follow sections 3 and 4.3 of the specification).             *)

newSnapshot(number, hash, validators) ==
    [Number |-> number, Hash |-> hash, Validators |-> validators, Recents |-> <<>>]

validators(snap) == SortAsc(snap.Validators)

indexOfVal(snap, v) ==
    LET vs == validators(snap)
    IN IF \E i \in 1 .. Len(vs) : vs[i] = v
       THEN (CHOOSE i \in 1 .. Len(vs) : vs[i] = v) - 1
       ELSE -1

inturn(snap, v) ==
    LET vs == validators(snap)
    IN Len(vs) > 0 /\ vs[((snap.Number + 1) % Len(vs)) + 1] = v

supposeValidator(snap) ==
    LET vs == validators(snap)
    IN vs[((snap.Number + 1) % Len(vs)) + 1]

SignRecently_Never(snap, v) == FALSE

SignRecently(snap, v) == \E n \in DOMAIN snap.Recents : snap.Recents[n] = v

RecentsLimit(vs) == (Cardinality(vs) \div 2) + 1

ParseValidators(h) ==
    IF (h.extraLen - extraVanity - extraSeal) % validatorBytesLength # 0
    THEN [err |-> errInvalidSpanValidators, vals |-> {}]
    ELSE [err |-> Nil, vals |-> SeqToSet(h.extraVals)]

(* the entries of recents inside the window of limit blocks that ends at number *)
windowOf_All(recents, number, limit) == recents

windowOf(recents, number, limit) ==
    [n \in {m \in DOMAIN recents : m > number - limit} |-> recents[n]]

(* the validator set after header h: the list carried by an epoch header, else the
   set of the snapshot *)
epochValidators_Keep(snap, h) == snap.Validators

epochValidators(snap, h) ==
    IF h.number % Epoch = 0 THEN SeqToSet(h.extraVals) ELSE snap.Validators

applyHeader(snap, h) ==
    LET K == RecentsLimit(snap.Validators)
        kept == [n \in (DOMAIN snap.Recents) \ {h.number - K} |-> snap.Recents[n]]
        recents == (h.number :> h.signer) @@ kept
        newVals == epochValidators(snap, h)
        K2 == RecentsLimit(newVals)
        pruned == windowOf(recents, h.number, K2)
    IN IF h.number # snap.Number + 1 THEN [err |-> errOutOfRangeChain, snap |-> snap]
       ELSE IF h.signer = BadSig THEN [err |-> errInvalidSignature, snap |-> snap]
       ELSE IF h.signer \notin snap.Validators
            THEN [err |-> errUnauthorizedValidator, snap |-> snap]
       ELSE IF SignRecently(snap, h.signer) THEN [err |-> errRecentlySigned, snap |-> snap]
       ELSE [err |-> Nil,
             snap |-> [Number |-> h.number, Hash |-> Hash(h),
                       Validators |-> newVals, Recents |-> pruned]]

(* Zephyria.snapshot: walk back to a snapshot that can be built (genesis), *)
(* taking headers from parents first and from the chain after, then apply  *)
(* the gathered headers forward.                                           *)
RECURSIVE snapshot(_, _, _, _)
snapshot(ch, number, hash, parents) ==
    IF number = 0
    THEN LET checkpoint == GetHeaderByNumber(ch, 0)
             parsed == ParseValidators(checkpoint)
         IN IF checkpoint.extraLen <= extraVanity + extraSeal
            THEN [err |-> errGenesisExtra, snap |-> Nil]
            ELSE IF parsed.err # Nil THEN [err |-> parsed.err, snap |-> Nil]
            ELSE [err |-> Nil, snap |-> newSnapshot(0, Hash(checkpoint), parsed.vals)]
    ELSE LET fromParents == Len(parents) > 0
             header == IF fromParents THEN parents[Len(parents)]
                       ELSE GetHeader(ch, hash, number)
             rest == IF fromParents THEN SubSeq(parents, 1, Len(parents) - 1) ELSE <<>>
         IN IF fromParents /\ (Hash(header) # hash \/ header.number # number)
            THEN [err |-> ErrUnknownAncestor, snap |-> Nil]
            ELSE IF header = NoHeader THEN [err |-> ErrUnknownAncestor, snap |-> Nil]
            ELSE LET prev == snapshot(ch, number - 1, header.parentHash, rest)
                 IN IF prev.err # Nil THEN prev ELSE applyHeader(prev.snap, header)

----------------------------------------------------------------------------
(* Header verification *)

GasBits == 24                     \* width of the gas words of the model (uint64 scaled)
GasLimitBoundDivisor == 1024
MinGasLimit == 5000
GasWord == 2 ^ GasBits
ToSigned(x) == IF x >= GasWord \div 2 THEN x - GasWord ELSE x   \* int64(x)
ToUnsigned(x) == x % GasWord                                      \* uint64(x)

(* The permutation of [0, n) that rand.Shuffle yields for a seed: a fixed  *)
(* function of (seed, n), here the rotation by seed.                       *)
backOffSteps(seed, n) == [i \in 1 .. n |-> (i - 1 + seed) % n]

backOffTime_NoInitial(snap, v) ==
    IF inturn(snap, v) THEN 0
    ELSE LET idx == indexOfVal(snap, v)
         IN IF idx < 0 THEN 0
            ELSE backOffSteps(snap.Number, Len(validators(snap)))[idx + 1] * wiggleTime

backOffTime(snap, v) ==
    IF inturn(snap, v) THEN 0
    ELSE LET idx == indexOfVal(snap, v)
         IN IF idx < 0 THEN 0
            ELSE initialBackOffTime
                 + backOffSteps(snap.Number, Len(validators(snap)))[idx + 1] * wiggleTime

CalcDifficulty(snap, signer) == IF inturn(snap, signer) THEN diffInTurn ELSE diffNoTurn

getParent(ch, header, parents) ==
    LET parent == IF Len(parents) > 0 THEN parents[Len(parents)]
                  ELSE GetHeader(ch, header.parentHash, header.number - 1)
    IN IF parent = NoHeader \/ parent.number # header.number - 1
          \/ Hash(parent) # header.parentHash
       THEN [err |-> ErrUnknownAncestor, parent |-> NoHeader]
       ELSE [err |-> Nil, parent |-> parent]

(* ecrecover: the address recovered from the seal, or an error *)
ecrecover(header) ==
    IF header.extraLen < extraSeal THEN [err |-> errMissingSignature, signer |-> BadSig]
    ELSE IF header.signer = BadSig THEN [err |-> errInvalidSignature, signer |-> BadSig]
    ELSE [err |-> Nil, signer |-> header.signer]

(* the four checks of verifySeal on the recovered signer, in their order *)
sealCoinbaseCheck_Skipped(header, signer) == Nil

sealCoinbaseCheck(header, signer) ==
    IF signer # header.coinbase THEN errCoinBaseMisMatch ELSE Nil

sealAuthorizedCheck(snap, signer) ==
    IF signer \notin snap.Validators THEN errUnauthorizedValidator ELSE Nil

sealRecentCheck_Skipped(snap, signer) == Nil

sealRecentCheck(snap, signer) ==
    IF SignRecently(snap, signer) THEN errRecentlySigned ELSE Nil

sealDifficultyCheck_InTurnOnly(snap, header, signer, fd) ==
    IF ~fd /\ inturn(snap, signer) /\ header.difficulty # diffInTurn
    THEN errWrongDifficulty ELSE Nil

sealDifficultyCheck_NoTurnOnly(snap, header, signer, fd) ==
    IF ~fd /\ ~inturn(snap, signer) /\ header.difficulty # diffNoTurn
    THEN errWrongDifficulty ELSE Nil

sealDifficultyCheck(snap, header, signer, fd) ==
    IF ~fd
    THEN IF header.difficulty = NilDiff THEN panicNilDifficulty
         ELSE IF inturn(snap, signer) /\ header.difficulty # diffInTurn THEN errWrongDifficulty
         ELSE IF ~inturn(snap, signer) /\ header.difficulty # diffNoTurn THEN errWrongDifficulty
         ELSE Nil
    ELSE Nil

verifySeal(ch, header, parents, fd) ==
    IF header.number = 0 THEN errUnknownBlock
    ELSE LET s == snapshot(ch, header.number - 1, header.parentHash, parents)
             r == ecrecover(header)
         IN IF s.err # Nil THEN s.err
            ELSE IF r.err # Nil THEN r.err
            ELSE IF sealCoinbaseCheck(header, r.signer) # Nil
                 THEN sealCoinbaseCheck(header, r.signer)
            ELSE IF sealAuthorizedCheck(s.snap, r.signer) # Nil
                 THEN sealAuthorizedCheck(s.snap, r.signer)
            ELSE IF sealRecentCheck(s.snap, r.signer) # Nil
                 THEN sealRecentCheck(s.snap, r.signer)
            ELSE sealDifficultyCheck(s.snap, header, r.signer, fd)

(* Blocktime verify *)
blockTimeCheck_PeriodOnly(parent, snap, header) ==
    IF header.time < parent.time + period THEN ErrFutureBlock ELSE Nil

blockTimeCheck(parent, snap, header) ==
    IF header.time < parent.time + period + backOffTime(snap, header.coinbase)
    THEN ErrFutureBlock ELSE Nil

verifyCascadingFields(ch, header, parents, fd) ==
    IF header.number = 0 THEN Nil
    ELSE LET p == getParent(ch, header, parents)
             s == snapshot(ch, header.number - 1, header.parentHash, parents)
             diff == ToSigned(p.parent.gasLimit) - ToSigned(header.gasLimit)
             absDiff == IF diff < 0 THEN diff * (-1) ELSE diff
             limit == p.parent.gasLimit \div GasLimitBoundDivisor
         IN IF p.err # Nil THEN p.err
            ELSE IF s.err # Nil THEN s.err
            ELSE IF blockTimeCheck(p.parent, s.snap, header) # Nil
                 THEN blockTimeCheck(p.parent, s.snap, header)
            ELSE IF header.gasLimit > GasWord \div 2 - 1 THEN errGasLimit
            ELSE IF header.gasUsed > header.gasLimit THEN errGasUsed
            ELSE IF ToUnsigned(absDiff) >= limit \/ header.gasLimit < MinGasLimit
                 THEN errGasBound
            ELSE verifySeal(ch, header, parents, fd)

parentLinkErr_Skipped(p) == Nil

(* the error of "parent, err := p.getParent(chain, header, parents)" *)
parentLinkErr(p) == p.err

(* The chain configuration is pre-London: a base fee must be absent. *)
verifyHeader(ch, header, parents, fd, clock) ==
    LET isEpoch == header.number % Epoch = 0
        signersBytes == header.extraLen - extraVanity - extraSeal
        p == getParent(ch, header, parents)
    IN IF header.time > clock THEN ErrFutureBlock
       ELSE IF header.extraLen < extraVanity THEN errMissingVanity
       ELSE IF header.extraLen < extraVanity + extraSeal THEN errMissingSignature
       ELSE IF ~isEpoch /\ signersBytes # 0 THEN errExtraValidators
       ELSE IF isEpoch /\ signersBytes % validatorBytesLength # 0 THEN errInvalidSpanValidators
       ELSE IF header.mixDigest # 0 THEN errInvalidMixDigest
       ELSE IF header.uncleHash # "empty" THEN errInvalidUncleHash
       ELSE IF header.number > 0 /\ header.difficulty = NilDiff THEN errInvalidDifficulty
       ELSE IF parentLinkErr(p) # Nil THEN parentLinkErr(p)
       ELSE IF header.baseFee # Nil THEN errBaseFee
       ELSE IF header.withdrawalsHash # Nil THEN errWithdrawals
       ELSE verifyCascadingFields(ch, header, parents, fd)

----------------------------------------------------------------------------
(* The headers offered to the verifier: extensions of the chain head with  *)
(* every seal, coinbase and difficulty, and headers that deviate from a    *)
(* well-formed extension in their linkage, time, or one structural field.  *)

GenesisSets == {1 .. k : k \in 1 .. NumAddr}

NextHeader(ch, cb, sg, d, t) ==
    [number |-> Len(ch), parentHash |-> Hash(CurrentHeader(ch)), coinbase |-> cb,
     signer |-> sg, difficulty |-> d, time |-> t,
     extraLen |-> extraVanity + extraSeal, extraVals |-> <<>>, mixDigest |-> 0,
     uncleHash |-> "empty", baseFee |-> Nil, withdrawalsHash |-> Nil,
     gasLimit |-> CurrentHeader(ch).gasLimit, gasUsed |-> 0]

HeadSnap(ch) == snapshot(ch, Len(ch) - 1, Hash(CurrentHeader(ch)), <<>>).snap

WellFormed(ch, cb, t) == NextHeader(ch, cb, cb, CalcDifficulty(HeadSnap(ch), cb), t)

InTurnAddr(ch) == supposeValidator(HeadSnap(ch))

SealCandidates(ch, t) ==
    UNION {{NextHeader(ch, cb, sg, d, t) :
                sg \in {cb, (cb % NumAddr) + 1, BadSig}, d \in {NilDiff, 1, 2, 3}} :
           cb \in Addrs}

LinkCandidates(ch, t) ==
    {[WellFormed(ch, InTurnAddr(ch), t) EXCEPT !.number = n, !.parentHash = ph] :
        n \in 0 .. Len(ch),
        ph \in {Hash(ch[k]) : k \in 1 .. Len(ch)} \cup {UnknownHash}}

TimeCandidates(ch) == {WellFormed(ch, cb, t) : cb \in Addrs, t \in 0 .. MaxTime + 1}

StructDeviations(ch, w) ==
    LET g == CurrentHeader(ch).gasLimit
    IN {[w EXCEPT !.extraLen = n] :
            n \in {0, extraVanity, extraVanity + extraSeal + 1,
                   extraVanity + extraSeal + validatorBytesLength}}
       \cup {[w EXCEPT !.mixDigest = 1], [w EXCEPT !.uncleHash = "other"],
             [w EXCEPT !.baseFee = "set"], [w EXCEPT !.withdrawalsHash = "set"],
             [w EXCEPT !.gasUsed = g + 1]}
       \cup {[w EXCEPT !.gasLimit = x] :
            x \in {g - (g \div GasLimitBoundDivisor), g + (g \div GasLimitBoundDivisor) - 1,
                   MinGasLimit - 1, GasWord \div 2}}

StructCandidates(ch, t) == StructDeviations(ch, WellFormed(ch, InTurnAddr(ch), t))

Candidates(ch, t) ==
    SealCandidates(ch, t) \cup LinkCandidates(ch, t) \cup TimeCandidates(ch)
        \cup StructCandidates(ch, t)

NoFin == [op |-> "none"]

QuietSeal ==
    /\ sealPc = "Idle" /\ sealHdr = NoHeader /\ stop = FALSE
    /\ sealOut = <<>> /\ sealRet = Nil /\ stopSeen = FALSE /\ sealWake = 0
    /\ sealTxs = FALSE /\ sealSeen = NoHeader

QuietBatch ==
    /\ batch = <<>> /\ vhPc = "Idle" /\ vhIdx = 0 /\ vhErr = Nil
    /\ abort = FALSE /\ results = <<>> /\ abortSeen = FALSE

QuietVerify == vHeader = NoHeader /\ vErr = Nil /\ vOp = "none"

(* the default epoch, nothing held in memory, nothing stored *)
QuietLock ==
    /\ lock = [writer |-> FALSE, readers |-> 0] /\ authPc = [pc |-> "idle"]
    /\ signFn = NoAddr /\ signTxFn = NoAddr

QuietStore ==
    epoch = defaultEpochLength /\ recentSnaps = {} /\ db = {} /\ period = Period

Init ==
    /\ \E vs \in GenesisSets : chain = <<GenesisHeader(vs)>>
    /\ now = 0
    /\ fakeDiff \in BOOLEAN
    /\ val = NoAddr
    /\ QuietVerify /\ QuietSeal /\ QuietBatch /\ QuietLock /\ QuietStore
    /\ fin = NoFin

(* time passes between two calls of the engine *)
Tick ==
    /\ vOp = "none"
    /\ now < MaxTime
    /\ now' = now + 1
    /\ UNCHANGED <<storeVars, lockVars, chain, fakeDiff, val, verifyVars, sealVars, batchVars, fin>>

(* Zephyria.VerifyHeader *)
VerifyHeader ==
    /\ vOp = "none"
    /\ \E h \in Candidates(chain, now) :
        /\ vHeader' = h
        /\ vErr' = verifyHeader(chain, h, <<>>, fakeDiff, now)
    /\ vOp' = "VerifyHeader"
    /\ UNCHANGED <<storeVars, lockVars, chainVars, sealVars, batchVars, fin>>

(* Zephyria.VerifySeal *)
VerifySeal ==
    /\ vOp = "none"
    /\ \E h \in SealCandidates(chain, now) \cup LinkCandidates(chain, now) :
        /\ vHeader' = h
        /\ vErr' = verifySeal(chain, h, <<>>, fakeDiff)
    /\ vOp' = "VerifySeal"
    /\ UNCHANGED <<storeVars, lockVars, chainVars, sealVars, batchVars, fin>>

(* the chain driver imports a header that VerifyHeader accepted on the head *)
InsertChain ==
    /\ vOp = "VerifyHeader" /\ vErr = Nil
    /\ vHeader.number = Len(chain) /\ vHeader.number <= MaxNumber
    /\ chain' = Append(chain, vHeader)
    /\ vOp' = "none" /\ vHeader' = NoHeader /\ vErr' = Nil
    /\ UNCHANGED <<storeVars, lockVars, now, fakeDiff, val, sealVars, batchVars, fin>>

(* the caller drops the verdict *)
Discard ==
    /\ vOp # "none"
    /\ vOp' = "none" /\ vHeader' = NoHeader /\ vErr' = Nil
    /\ UNCHANGED <<storeVars, lockVars, chainVars, sealVars, batchVars, fin>>

Next == Tick \/ VerifyHeader \/ VerifySeal \/ InsertChain \/ Discard

Spec == Init /\ [][Next]_vars

----------------------------------------------------------------------------
(* Seal and its detached wait task *)

(* Zephyria.Authorize *)
Authorize ==
    /\ \E v \in Addrs : val' = v /\ signFn' = v /\ signTxFn' = v
    /\ UNCHANGED <<storeVars, lock, authPc, chain, now, fakeDiff, verifyVars, sealVars, batchVars, fin>>

(* the chain driver verifies and imports a block sealed by a validator *)
ImportHeader ==
    /\ Len(chain) <= MaxNumber
    /\ \E cb \in Addrs :
        /\ verifyHeader(chain, WellFormed(chain, cb, now), <<>>, fakeDiff, now) = Nil
        /\ chain' = Append(chain, WellFormed(chain, cb, now))
    /\ UNCHANGED <<storeVars, lockVars, now, fakeDiff, val, verifyVars, sealVars, batchVars, fin>>

(* a chain of period 0 refuses to seal a block without transactions *)
pausedForTransactions_Never(hasTxs) == FALSE

pausedForTransactions(hasTxs) == period = 0 /\ ~hasTxs

authorizedToSeal_Always(snap, v) == TRUE

(* Seal's "_, authorized := snap.Validators[val]" *)
authorizedToSeal(snap, v) == v \in snap.Validators

errSignFn == "signFn error"   \* the error signFn returned

(* the synchronous part of Seal: the value it returns, "go" when it starts the task *)
sealPrelude(ch, header, v, hasTxs, signOk) ==
    LET s == snapshot(ch, header.number - 1, header.parentHash, <<>>)
    IN IF header.number = 0 THEN [ret |-> errUnknownBlock, go |-> FALSE]
       ELSE IF pausedForTransactions(hasTxs) THEN [ret |-> Nil, go |-> FALSE]
       ELSE IF s.err # Nil THEN [ret |-> s.err, go |-> FALSE]
       ELSE IF ~authorizedToSeal(s.snap, v)
            THEN [ret |-> errUnauthorizedValidator, go |-> FALSE]
       ELSE IF SignRecently(s.snap, v) THEN [ret |-> Nil, go |-> FALSE]
       ELSE IF ~signOk THEN [ret |-> errSignFn, go |-> FALSE]
       ELSE [ret |-> Nil, go |-> TRUE]

shouldWaitForCurrentBlockProcess_SameParent(header, highestVerified) ==
    IF highestVerified = NoHeader THEN FALSE
    ELSE header.parentHash = highestVerified.parentHash

shouldWaitForCurrentBlockProcess(header, highestVerified) ==
    IF header.difficulty = diffInTurn THEN FALSE
    ELSE IF highestVerified = NoHeader THEN FALSE
    ELSE header.parentHash = highestVerified.parentHash

(* where the wait task goes when a select takes the stop case: it returns *)
afterStop_FallThrough(next) == next

afterStop(next) == "Aborted"

(* the blocks handed to Seal: prepared on the chain head, the genesis, or a block
   whose parent the chain does not hold *)
SealInputs(ch, t) ==
    {NextHeader(ch, cb, BadSig, d, tt) :
        cb \in Addrs, d \in {diffNoTurn, diffInTurn}, tt \in {t, t + 1}}
    \cup {[NextHeader(ch, 1, BadSig, diffNoTurn, t) EXCEPT !.number = 0]}
    \cup {[NextHeader(ch, 1, BadSig, diffNoTurn, t) EXCEPT !.parentHash = UnknownHash]}

SealCall ==
    /\ sealPc = "Idle"
    /\ \E h \in SealInputs(chain, now), hasTxs \in BOOLEAN, signOk \in BOOLEAN :
        LET r == sealPrelude(chain, h, val, hasTxs, signOk)
        IN /\ sealRet' = r.ret
           /\ sealPc' = IF r.go THEN "WaitingDelay" ELSE "Returned"
           /\ sealHdr' = IF r.go THEN [h EXCEPT !.signer = val] ELSE h
           /\ sealWake' = h.time
           /\ sealTxs' = hasTxs
    /\ UNCHANGED <<storeVars, lockVars, chainVars, verifyVars, sealSeen, stop, sealOut, stopSeen, batchVars, fin>>

(* the caller closes the stop channel *)
Stop ==
    /\ sealPc # "Idle" /\ ~stop
    /\ stop' = TRUE
    /\ UNCHANGED <<storeVars, lockVars, chainVars, verifyVars, sealSeen, sealTxs, sealPc, sealHdr, sealOut, sealRet, stopSeen,
                   sealWake, batchVars, fin>>

(* first select, case <-stop *)
DelayStopped ==
    /\ sealPc = "WaitingDelay" /\ stop
    /\ sealPc' = afterStop("Delivering")
    /\ stopSeen' = TRUE
    /\ UNCHANGED <<storeVars, lockVars, chainVars, verifyVars, sealSeen, sealTxs, sealHdr, stop, sealOut, sealRet, sealWake,
                   batchVars, fin>>

timerFired_Never(clock, wake) == FALSE

(* the channel of time.After is ready once the clock has reached the wake time *)
timerFired(clock, wake) == clock >= wake

(* first select, case <-time.After(delay), then shouldWaitForCurrentBlockProcess *)
DelayElapsed ==
    /\ sealPc = "WaitingDelay" /\ timerFired(now, sealWake)
    /\ \E hv \in {NoHeader, CurrentHeader(chain), WellFormed(
                     SubSeq(chain, 1, sealHdr.number), 1, now)} :
        /\ sealSeen' = hv
        /\ IF shouldWaitForCurrentBlockProcess(sealHdr, hv)
           THEN sealPc' = "WaitingPeer" /\ sealWake' = now + processBackOffTime
           ELSE sealPc' = "Delivering" /\ sealWake' = sealWake
    /\ UNCHANGED <<storeVars, lockVars, chainVars, verifyVars, sealTxs, sealHdr, stop, sealOut, sealRet, stopSeen,
                   batchVars, fin>>

(* second select, case <-stop *)
PeerStopped ==
    /\ sealPc = "WaitingPeer" /\ stop
    /\ sealPc' = afterStop("Delivering")
    /\ stopSeen' = TRUE
    /\ UNCHANGED <<storeVars, lockVars, chainVars, verifyVars, sealSeen, sealTxs, sealHdr, stop, sealOut, sealRet, sealWake,
                   batchVars, fin>>

(* second select, case <-time.After(processBackOffTime) *)
PeerElapsed ==
    /\ sealPc = "WaitingPeer" /\ timerFired(now, sealWake)
    /\ sealPc' = IF CurrentHeader(chain).number >= sealHdr.number
                 THEN "Aborted" ELSE "Delivering"
    /\ UNCHANGED <<storeVars, lockVars, chainVars, verifyVars, sealSeen, sealTxs, sealHdr, stop, sealOut, sealRet, stopSeen,
                   sealWake, batchVars, fin>>

(* last select: the block goes to results if the sink can take it, else it is dropped *)
Deliver ==
    /\ sealPc = "Delivering"
    /\ \E sinkReady \in BOOLEAN :
        IF sinkReady
        THEN sealPc' = "Emitted" /\ sealOut' = Append(sealOut, sealHdr)
        ELSE sealPc' = "Dropped" /\ sealOut' = sealOut
    /\ UNCHANGED <<storeVars, lockVars, chainVars, verifyVars, sealSeen, sealTxs, sealHdr, stop, sealRet, stopSeen, sealWake,
                   batchVars, fin>>

InitSeal ==
    /\ chain = <<GenesisHeader(Addrs)>>
    /\ now = 0
    /\ fakeDiff = FALSE
    /\ val = NoAddr
    /\ QuietVerify /\ QuietSeal /\ QuietBatch /\ QuietLock
    /\ epoch = defaultEpochLength /\ recentSnaps = {} /\ db = {}
    /\ period \in {0, Period}
    /\ fin = NoFin

(* the environment is followed until the Seal call and its task have ended *)
SealLive == sealPc \in {"Idle", "WaitingDelay", "WaitingPeer", "Delivering"}

NextSeal ==
    \/ (SealLive /\ Tick)
    \/ (sealPc = "Idle" /\ Authorize)
    \/ (SealLive /\ Len(chain) <= MaxImports /\ ImportHeader)
    \/ SealCall \/ Stop
    \/ DelayStopped \/ DelayElapsed \/ PeerStopped \/ PeerElapsed \/ Deliver

SpecSeal == InitSeal /\ [][NextSeal]_vars

(* C4 as stated: once the stop signal has fired, no block is delivered, at whichever
   point of the wait task the stop arrives. *)
C4_NoDeliveryOnceStopFired == [][stop => sealOut' = sealOut]_vars

(* C4 amended: once a select of the wait task has taken the stop case (during the
   delay wait or the out-of-turn peer wait) the task has ended and delivers no block. *)
C4_NoDeliveryOnceStopObserved ==
    stopSeen => (sealPc = "Aborted" /\ sealOut = <<>>)

C4_Witness == stopSeen /\ sealPc = "Aborted" /\ sealHdr.difficulty = diffNoTurn

----------------------------------------------------------------------------
(* VerifyHeaders and its worker *)

(* results := make(chan error, len(headers)) *)
resultsCap_Unbuffered(headers) == 0

resultsCap(headers) == Len(headers)

(* the parents handed to verifyHeader for header i (0-based): headers[:i] *)
workerParents_None(headers, i) == <<>>

workerParents(headers, i) == SubSeq(headers, 1, i)

(* where the worker goes when its select takes the abort case: it returns *)
afterAbort_Continue(next) == next

afterAbort(next) == "Aborted"

BatchCandidates(ch, t) ==
    {NextHeader(ch, cb, cb, d, tt) :
        cb \in Addrs, d \in {diffNoTurn, diffInTurn}, tt \in {Len(ch), t}}
    \cup {NextHeader(ch, 1, BadSig, diffNoTurn, t),
          [NextHeader(ch, 1, 1, diffNoTurn, t) EXCEPT !.parentHash = UnknownHash]}

RECURSIVE Batches(_, _, _)
Batches(ch, t, n) ==
    IF n = 0 THEN {<<>>}
    ELSE LET prev == Batches(ch, t, n - 1)
         IN prev \cup UNION {{Append(b, h) : h \in BatchCandidates(ch \o b, t)} :
                                b \in {x \in prev : Len(x) = n - 1}}

(* VerifyHeaders: make the channels and submit the worker *)
VerifyHeadersCall ==
    /\ vhPc = "Idle"
    /\ batch' \in Batches(chain, now, MaxBatch)
    /\ vhPc' = "Loop" /\ vhIdx' = 0
    /\ UNCHANGED <<storeVars, lockVars, chainVars, verifyVars, sealVars, vhErr, abort, results, abortSeen, fin>>

(* for i, header := range headers: err := p.verifyHeader(chain, header, headers[:i]) *)
WorkerVerify ==
    /\ vhPc = "Loop"
    /\ IF vhIdx < Len(batch)
       THEN /\ vhErr' = verifyHeader(chain, batch[vhIdx + 1], workerParents(batch, vhIdx),
                                     fakeDiff, now)
            /\ vhPc' = "Select"
       ELSE vhPc' = "Done" /\ vhErr' = vhErr
    /\ UNCHANGED <<storeVars, lockVars, chainVars, verifyVars, sealVars, batch, vhIdx, abort, results,
                   abortSeen, fin>>

(* select, case results <- err *)
WorkerSend ==
    /\ vhPc = "Select" /\ Len(results) < resultsCap(batch)
    /\ results' = Append(results, vhErr)
    /\ vhIdx' = vhIdx + 1
    /\ vhPc' = "Loop"
    /\ UNCHANGED <<storeVars, lockVars, chainVars, verifyVars, sealVars, batch, vhErr, abort, abortSeen, fin>>

(* select, case <-abort *)
WorkerAbort ==
    /\ vhPc = "Select" /\ abort
    /\ vhPc' = afterAbort("Loop")
    /\ abortSeen' = TRUE
    /\ UNCHANGED <<storeVars, lockVars, chainVars, verifyVars, sealVars, batch, vhIdx, vhErr, abort, results,
                   fin>>

(* the caller closes the abort channel *)
Abort ==
    /\ vhPc # "Idle" /\ ~abort
    /\ abort' = TRUE
    /\ UNCHANGED <<storeVars, lockVars, chainVars, verifyVars, sealVars, batch, vhPc, vhIdx, vhErr, results,
                   abortSeen, fin>>

InitBatch ==
    /\ chain = <<GenesisHeader(Addrs)>>
    /\ now = 0
    /\ fakeDiff = FALSE
    /\ val = NoAddr
    /\ QuietVerify /\ QuietSeal /\ QuietBatch /\ QuietLock /\ QuietStore
    /\ fin = NoFin

NextBatch ==
    \/ (vhPc = "Idle" /\ Tick)
    \/ (vhPc = "Idle" /\ Len(chain) <= MaxImports /\ ImportHeader)
    \/ VerifyHeadersCall \/ WorkerVerify \/ WorkerSend \/ WorkerAbort \/ Abort

SpecBatch == InitBatch /\ [][NextBatch]_vars

(* C5 as stated: once the caller has signalled abort, the worker emits no further
   result and completes no further verification. *)
C5_NoResultOnceAbortSignalled ==
    [][abort => (results' = results /\ vhErr' = vhErr)]_vars

(* C5 amended: once the worker's select has taken the abort case, the worker has
   returned: it emits no further result and verifies no further header. *)
C5_NoResultOnceAbortObserved ==
    [][abortSeen => (results' = results /\ vhErr' = vhErr /\ vhPc' = "Aborted")]_vars

C5_Witness == abortSeen /\ vhPc = "Aborted" /\ Len(results) = 1 /\ Len(batch) = 2

(* C6: without an abort, the results are one per header in input order, the i-th the
   outcome of verifyHeader on header i with headers[0..i) as parents; the worker is
   never blocked (at its select the send always finds room on the channel, the only
   place where it waits) and it ends having sent a result for every header. *)
C6_ResultsInInputOrder ==
    ~abort =>
        /\ Len(results) <= Len(batch)
        /\ \A k \in 1 .. Len(results) :
              results[k] = verifyHeader(chain, batch[k], SubSeq(batch, 1, k - 1),
                                        fakeDiff, now)
        /\ (vhPc = "Select" => (vhIdx = Len(results) /\ Len(results) < Len(batch)
                                 /\ ENABLED WorkerSend))
        /\ (vhPc = "Loop" => vhIdx = Len(results))
        /\ (vhPc = "Done" => Len(results) = Len(batch))
        /\ vhPc # "Aborted"

C6_Witness ==
    /\ ~abort /\ vhPc = "Done" /\ Len(batch) = 2
    /\ results[1] = Nil /\ results[2] = Nil

----------------------------------------------------------------------------
(* Properties of header verification *)

Verified == vOp \in {"VerifyHeader", "VerifySeal"} /\ vHeader.number > 0

ParentSnap == snapshot(chain, vHeader.number - 1, vHeader.parentHash, <<>>)

(* the seal checks are reached: by VerifySeal, with a snapshot and a recovered signer *)
SealReached ==
    /\ vOp = "VerifySeal" /\ vHeader.number > 0
    /\ ParentSnap.err = Nil /\ ecrecover(vHeader).err = Nil

(* C1: a header with number > 0 that verifyHeader or verifySeal accepts has a seal
   whose recovered address equals header.coinbase and is a validator of the snapshot
   at its parent; when the seal checks are reached, a signer that differs from the
   coinbase is rejected with errCoinBaseMisMatch and a signer equal to the coinbase
   outside the validator set with errUnauthorizedValidator. *)
C1_AcceptedSignerIsCoinbaseValidator ==
    /\ (Verified /\ vErr = Nil) =>
          /\ ParentSnap.err = Nil
          /\ ecrecover(vHeader).signer = vHeader.coinbase
          /\ vHeader.coinbase \in ParentSnap.snap.Validators
    /\ (SealReached /\ vHeader.signer # vHeader.coinbase) => vErr = errCoinBaseMisMatch
    /\ (SealReached /\ vHeader.signer = vHeader.coinbase
          /\ vHeader.signer \notin ParentSnap.snap.Validators)
        => vErr = errUnauthorizedValidator

C1_Witness ==
    /\ vOp = "VerifyHeader" /\ vErr = Nil /\ vHeader.number = 2
    /\ vHeader.signer = vHeader.coinbase

(* C2: with fakeDiff off, an accepted header with number > 0 has difficulty 2 exactly
   when its coinbase is in-turn in the parent snapshot and difficulty 1 otherwise;
   when the difficulty check is reached every other difficulty is rejected with
   errWrongDifficulty. *)
C2_DifficultyMatchesTurn ==
    /\ (Verified /\ vErr = Nil /\ ~fakeDiff) =>
          /\ (vHeader.difficulty = diffInTurn) <=> inturn(ParentSnap.snap, vHeader.coinbase)
          /\ ~inturn(ParentSnap.snap, vHeader.coinbase) => vHeader.difficulty = diffNoTurn
    /\ (SealReached /\ ~fakeDiff /\ vHeader.signer = vHeader.coinbase
          /\ vHeader.signer \in ParentSnap.snap.Validators
          /\ ~SignRecently(ParentSnap.snap, vHeader.signer)
          /\ vHeader.difficulty # NilDiff
          /\ vHeader.difficulty #
                (IF inturn(ParentSnap.snap, vHeader.signer) THEN diffInTurn ELSE diffNoTurn))
        => vErr = errWrongDifficulty

C2_Witness ==
    /\ Verified /\ vErr = Nil /\ ~fakeDiff
    /\ vHeader.difficulty = diffNoTurn
    /\ ~inturn(ParentSnap.snap, vHeader.coinbase)

(* C3: verifySeal never accepts a header whose signer is among the values of the
   parent snapshot's recents: a header signed by its coinbase, an authorized
   validator, that is in recents is rejected with errRecentlySigned. *)
C3_RecentSignerRejected ==
    /\ (Verified /\ vErr = Nil) =>
          \A n \in DOMAIN ParentSnap.snap.Recents :
              ParentSnap.snap.Recents[n] # vHeader.signer
    /\ (SealReached /\ vHeader.signer = vHeader.coinbase
          /\ vHeader.signer \in ParentSnap.snap.Validators
          /\ (\E n \in DOMAIN ParentSnap.snap.Recents :
                 ParentSnap.snap.Recents[n] = vHeader.signer))
        => vErr = errRecentlySigned

C3_Witness ==
    /\ vOp = "VerifySeal" /\ vErr = errRecentlySigned
    /\ vHeader.signer = vHeader.coinbase
    /\ vHeader.signer \in ParentSnap.snap.Validators

----------------------------------------------------------------------------
(* The system transactions of a block: Finalize on the verifier side,      *)
(* FinalizeAndAssemble on the producer side.                               *)

SystemAddress == 100          \* consensus.SystemAddress
ValidatorController == 101    \* the system contracts
SlashContract == 102
SystemRewardContract == 103
PolarysLightclient == 104
RelayerHubContract == 105
ValidatorHub == 106
GovHubContract == 107
StakingSystem == 108
StakingDelegator == 109
FsPRY == 110

Ether == 1                    \* params.Ether, in the balance unit of the model
MaxBalance == 32              \* the largest balance found at the system address

maxSystemBalance == 100 * Ether

(* the contracts of initContract, in its order *)
initContracts ==
    <<ValidatorController, SlashContract, SystemRewardContract, PolarysLightclient,
      RelayerHubContract, ValidatorHub, GovHubContract, StakingSystem,
      StakingDelegator, FsPRY>>

Accounts == Addrs \cup {SystemAddress} \cup SeqToSet(initContracts)

errSignTx == "signTxFn failed"
errNoActualTx == "supposed to get a actual transaction, but get none"
errTxHash == "expected tx hash mismatch"
errCall == "vmenv.Call failed"
errSystemTxsLength == "the length of systemTxs do not match"
errSystemGas == "gas consumption of system txs exceed the gas limit"
errMismatchingEpochValidators == "errMismatchingEpochValidators"

(* ABI-packed call data: the method and its one address argument; nil data *)
Pack(method, arg) == [method |-> method, arg |-> arg]
NilData == [method |-> "", arg |-> NoAddr]

getSystemMessage(from, toAddress, data, value) ==
    [from |-> from, to |-> toAddress, data |-> data, value |-> value]

(* types.NewTransaction with the gas and gas price of every system message; *)
(* from is the sender that the signature yields, none before signing        *)
NewTransaction(nonce, to, value, data) ==
    [nonce |-> nonce, to |-> to, value |-> value, data |-> data, from |-> NoAddr]

(* p.signer.Hash: the signing hash covers every field but the signature *)
TxHash(tx) == <<tx.nonce, tx.to, tx.value, tx.data>>

(* vmenv.Call: fails as the called contract makes it fail or when the caller *)
(* cannot pay the value; a failed call leaves the state as it was            *)
applyMessage(bal, msg, env) ==
    IF msg.to \in env.fails \/ bal[msg.from] < msg.value
    THEN [err |-> errCall, gas |-> env.gas, bal |-> bal]
    ELSE [err |-> Nil, gas |-> env.gas,
          bal |-> [a \in DOMAIN bal |->
                     bal[a] - (IF a = msg.from THEN msg.value ELSE 0)
                            + (IF a = msg.to THEN msg.value ELSE 0)]]

(* move to next: the received list advances past the matched transaction *)
moveToNext_Stay(receivedTxs) == receivedTxs

moveToNext(receivedTxs) == Tail(receivedTxs)

(* a nil entry of the received list *)
NilTx == [nonce |-> -1, to |-> NoAddr, value |-> 0, data |-> NilData, from |-> NoAddr]

(* types.NewReceipt and the fields set after it *)
NewReceipt(tx, gasUsed, cumulativeGasUsed, index) ==
    [txHash |-> TxHash(tx), gasUsed |-> gasUsed,
     cumulativeGasUsed |-> cumulativeGasUsed, index |-> index]

(* state.SetNonce(msg.From(), nonce+1) *)
nextNonce_Same(nonce) == nonce

nextNonce(nonce) == nonce + 1

(* ctx: the transactions, receipts and gas of the block so far, the system  *)
(* transactions received and not yet matched, the nonce of the coinbase,    *)
(* the balances, and the error of the last call                             *)
applyTransaction(ctx, msg, mining, v, env) ==
    LET expectedTx == NewTransaction(ctx.nonce, msg.to, msg.value, msg.data)
        signs == msg.from = v /\ mining
        actualTx == Head(ctx.received)
        tx == IF signs THEN [expectedTx EXCEPT !.from = v] ELSE actualTx
        rest == IF signs THEN ctx.received ELSE moveToNext(ctx.received)
        called == applyMessage(ctx.bal, msg, env)
        gas == (ctx.usedGas + called.gas) % GasWord
    IN IF signs /\ ~env.signOk THEN [ctx EXCEPT !.err = errSignTx]
       ELSE IF ~signs /\ (Len(ctx.received) = 0 \/ actualTx = NilTx)
            THEN [ctx EXCEPT !.err = errNoActualTx]
       ELSE IF ~signs /\ TxHash(actualTx) # TxHash(expectedTx)
            THEN [ctx EXCEPT !.err = errTxHash]
       ELSE IF called.err # Nil THEN [ctx EXCEPT !.received = rest, !.err = called.err]
       ELSE [ctx EXCEPT !.received = rest, !.txs = Append(@, tx),
                        !.receipts = Append(@, NewReceipt(tx, called.gas, gas,
                                                          Len(ctx.txs))),
                        !.usedGas = gas,
                        !.bal = called.bal, !.nonce = nextNonce(@), !.err = Nil]

RECURSIVE initFrom(_, _, _, _, _, _)
initFrom(ctx, header, i, mining, v, env) ==
    IF i > Len(initContracts) THEN [ctx EXCEPT !.err = Nil]
    ELSE LET msg == getSystemMessage(header.coinbase, initContracts[i],
                                     Pack("init", NoAddr), 0)
             r == applyTransaction(ctx, msg, mining, v, env)
         IN IF r.err # Nil THEN r ELSE initFrom(r, header, i + 1, mining, v, env)

initContract(ctx, header, mining, v, env) == initFrom(ctx, header, 1, mining, v, env)

slash(spoiledVal, ctx, header, mining, v, env) ==
    applyTransaction(ctx, getSystemMessage(header.coinbase, SlashContract,
                                           Pack("slash", spoiledVal), 0),
                     mining, v, env)

distributeToSystem_Skipped(amount, ctx, header, mining, v, env) == [ctx EXCEPT !.err = Nil]

distributeToSystem(amount, ctx, header, mining, v, env) ==
    applyTransaction(ctx, getSystemMessage(header.coinbase, SystemRewardContract,
                                           NilData, amount),
                     mining, v, env)

distributeToValidator(amount, validator, ctx, header, mining, v, env) ==
    applyTransaction(ctx, getSystemMessage(header.coinbase, ValidatorController,
                                           Pack("deposit", validator), amount),
                     mining, v, env)

(* if balance.Cmp(common.Big0) <= 0 { return nil } *)
nothingToDistribute_Never(balance) == FALSE

nothingToDistribute(balance) == balance <= 0

distributeIncoming(validator, ctx, header, mining, v, env) ==
    LET balance == ctx.bal[SystemAddress]
        moved == [ctx EXCEPT !.bal = [a \in DOMAIN ctx.bal |->
                     IF a = SystemAddress THEN 0
                     ELSE IF a = header.coinbase THEN ctx.bal[a] + balance
                     ELSE ctx.bal[a]]]
        doDistributeSysReward == moved.bal[SystemRewardContract] < maxSystemBalance
        rewards == balance \div (2 ^ systemRewardPercent)
        sys == distributeToSystem(rewards, moved, header, mining, v, env)
    IN IF nothingToDistribute(balance) THEN [ctx EXCEPT !.err = Nil]
       ELSE IF doDistributeSysReward /\ rewards > 0
            THEN IF sys.err # Nil THEN sys
                 ELSE distributeToValidator(balance - rewards, validator, sys,
                                            header, mining, v, env)
       ELSE distributeToValidator(balance, validator, moved, header, mining, v, env)

(* signedRecently of Finalize and FinalizeAndAssemble, by the fork in force *)
signedRecently(snap, spoiledVal, montanas) ==
    IF montanas THEN SignRecently(snap, spoiledVal)
    ELSE \E n \in DOMAIN snap.Recents : snap.Recents[n] = spoiledVal

(* the condition under which the supposed validator is slashed *)
needSlash_Always(header, snap, montanas) == TRUE

needSlash(header, snap, montanas) ==
    /\ header.difficulty # diffInTurn
    /\ ~signedRecently(snap, supposeValidator(snap), montanas)

(* the last check of Finalize: no received system transaction is left *)
leftoverCheck_Ignored(systemTxs) == Nil

leftoverCheck(systemTxs) == IF Len(systemTxs) > 0 THEN errSystemTxsLength ELSE Nil

(* Finalize: the errors of initContract and slash are logged and dropped *)
Finalize(ch, header, ctx, montanas, newValidators, v, env) ==
    LET s == snapshot(ch, header.number - 1, header.parentHash, <<>>)
        inited == IF header.number = 1
                  THEN [initContract(ctx, header, FALSE, v, env) EXCEPT !.err = Nil]
                  ELSE ctx
        slashed == IF needSlash(header, s.snap, montanas)
                   THEN [slash(supposeValidator(s.snap), inited, header, FALSE, v, env)
                            EXCEPT !.err = Nil]
                   ELSE inited
        dist == distributeIncoming(header.coinbase, slashed, header, FALSE, v, env)
    IN IF s.err # Nil THEN [ctx EXCEPT !.err = s.err]
       ELSE IF header.number % Epoch = 0 /\ header.extraVals # SortAsc(newValidators)
            THEN [ctx EXCEPT !.err = errMismatchingEpochValidators]
       ELSE IF dist.err # Nil THEN dist
       ELSE [dist EXCEPT !.err = leftoverCheck(dist.received)]

(* FinalizeAndAssemble: the block is assembled from ctx.txs when err is nil *)
FinalizeAndAssemble(ch, header, ctx, montanas, v, env) ==
    LET s == snapshot(ch, header.number - 1, header.parentHash, <<>>)
        inited == IF header.number = 1
                  THEN [initContract(ctx, header, TRUE, v, env) EXCEPT !.err = Nil]
                  ELSE ctx
        slashed == IF needSlash(header, s.snap, montanas)
                   THEN [slash(supposeValidator(s.snap), inited, header, TRUE, v, env)
                            EXCEPT !.err = Nil]
                   ELSE inited
        dist == distributeIncoming(v, slashed, header, TRUE, v, env)
    IN IF header.difficulty # diffInTurn /\ s.err # Nil THEN [inited EXCEPT !.err = s.err]
       ELSE IF dist.err # Nil THEN dist
       ELSE IF header.gasLimit < dist.usedGas THEN [dist EXCEPT !.err = errSystemGas]
       ELSE dist

(* The inputs of the two calls *)

OkEnv == [fails |-> {}, gas |-> 1, signOk |-> TRUE]

(* what the calls of one block meet: a system contract whose call fails, a  *)
(* call whose gas exceeds the block gas limit, a signing function that fails *)
CallEnvs(header) ==
    {[OkEnv EXCEPT !.fails = {c}] :
        c \in {SlashContract, ValidatorController, SystemRewardContract, GovHubContract}}
    \cup {OkEnv, [OkEnv EXCEPT !.gas = header.gasLimit + 1],
          [OkEnv EXCEPT !.signOk = FALSE]}

(* the balances of the system address and of the system reward contract *)
Balances ==
    {<<0, 0>>, <<MaxBalance - 1, 0>> , <<MaxBalance, 0>>, <<MaxBalance, maxSystemBalance>>}

ctx0(bs, received) ==
    [txs |-> <<>>, receipts |-> <<>>, received |-> received, nonce |-> 0,
     bal |-> [a \in Accounts |-> IF a = SystemAddress THEN bs[1]
                                 ELSE IF a = SystemRewardContract THEN bs[2] ELSE 0],
     usedGas |-> 0, err |-> Nil]

(* the tail that an unhindered producer with val = header.coinbase emits *)
ProducedTail(ch, header, bs, montanas) ==
    FinalizeAndAssemble(ch, header, ctx0(bs, <<>>), montanas, header.coinbase, OkEnv).txs

Renonce(s) == [i \in 1 .. Len(s) |-> [s[i] EXCEPT !.nonce = i - 1]]

Drop(s, k) == Renonce(SubSeq(s, 1, k - 1) \o SubSeq(s, k + 1, Len(s)))

Swap(s, k) ==
    Renonce([i \in 1 .. Len(s) |-> IF i = k THEN s[k + 1]
                                   ELSE IF i = k + 1 THEN s[k] ELSE s[i]])

Alter(s, k) == [s EXCEPT ![k].value = @ + 1]

Extra(s, cb) ==
    Append(s, [NewTransaction(Len(s), ValidatorController, 0, Pack("deposit", cb))
                  EXCEPT !.from = cb])

(* the tails a verifier receives: the produced one, and that tail with a    *)
(* transaction dropped, two swapped, one altered, or one appended           *)
ReceivedTails(s, cb) ==
    LET at == {1} \cup {k \in 1 .. Len(s) : k > Len(s) - 3}
    IN {s, Extra(s, cb)}
       \cup {Drop(s, k) : k \in at \cap (1 .. Len(s))}
       \cup {Swap(s, k) : k \in at \cap (1 .. Len(s) - 1)}
       \cup {Alter(s, k) : k \in at \cap (1 .. Len(s))}

(* the chain driver imports the block of a validator at its earliest time *)
ImportEarliest ==
    /\ Len(chain) <= MaxNumber
    /\ \E cb \in Addrs :
        LET ok == {t \in 0 .. now :
                     verifyHeader(chain, WellFormed(chain, cb, t), <<>>, fakeDiff, now) = Nil}
        IN /\ ok # {}
           /\ chain' = Append(chain,
                  WellFormed(chain, cb, CHOOSE t \in ok : \A u \in ok : t <= u))
    /\ UNCHANGED <<storeVars, lockVars, now, fakeDiff, val, verifyVars, sealVars, batchVars, fin>>

(* the tails that a producer whose val is the coinbase emits for the block, in the
   same state and with the same contracts failing, whether or not its signing fails *)
EmittedTails(ch, header, bs, montanas, env) ==
    LET outs == {FinalizeAndAssemble(ch, header, ctx0(bs, <<>>), montanas, header.coinbase,
                                     [env EXCEPT !.signOk = ok]) : ok \in BOOLEAN}
    IN {out.txs : out \in {o \in outs : o.err = Nil}}

(* Zephyria.Finalize on a block whose header was verified *)
FinalizeCall ==
    /\ fin.op = "none"
    /\ \E cb \in Addrs, bs \in Balances, montanas \in BOOLEAN :
        LET header == WellFormed(chain, cb, now)
        IN /\ verifyHeader(chain, header, <<>>, fakeDiff, now) = Nil
           /\ \E env \in {e \in CallEnvs(header) : e.signOk} :
              \E received \in ReceivedTails(ProducedTail(chain, header, bs, montanas), cb)
                               \cup EmittedTails(chain, header, bs, montanas, env) :
                LET out == Finalize(chain, header, ctx0(bs, received), montanas,
                                    HeadSnap(chain).Validators, val, env)
                IN fin' = [op |-> "Finalize", header |-> header, bs |-> bs,
                           montanas |-> montanas, env |-> env, val |-> val,
                           received |-> received, err |-> out.err,
                           txs |-> out.txs, remaining |-> out.received,
                       bal |-> out.bal]
    /\ UNCHANGED <<storeVars, lockVars, chainVars, verifyVars, sealVars, batchVars>>

(* Zephyria.FinalizeAndAssemble on a block prepared on the chain head *)
FinalizeAndAssembleCall ==
    /\ fin.op = "none"
    /\ \E cb \in Addrs, bs \in Balances, montanas \in BOOLEAN :
        LET header == WellFormed(chain, cb, now)
        IN \E env \in CallEnvs(header) :
            LET out == FinalizeAndAssemble(chain, header, ctx0(bs, <<>>), montanas, val, env)
            IN fin' = [op |-> "FinalizeAndAssemble", header |-> header, bs |-> bs,
                       montanas |-> montanas, env |-> env, val |-> val,
                       received |-> <<>>, err |-> out.err,
                       txs |-> out.txs, remaining |-> out.received,
                       bal |-> out.bal]
    /\ UNCHANGED <<storeVars, lockVars, chainVars, verifyVars, sealVars, batchVars>>

NilTo == -1                   \* tx.To() == nil: a contract creation
errUnAuthorizedTx == "UnAuthorized transaction"

(* the systemContracts map *)
systemContracts ==
    {ValidatorController, SlashContract, SystemRewardContract, PolarysLightclient,
     RelayerHubContract, ValidatorHub, GovHubContract, StakingSystem,
     StakingDelegator, FsPRY}

isToSystemContract_Any(to) == TRUE

isToSystemContract(to) == to \in systemContracts

(* tx.from is the sender that types.Sender recovers, BadSig when it fails *)
IsSystemTransaction(tx, header) ==
    IF tx.to = NilTo THEN [ok |-> FALSE, err |-> Nil]
    ELSE IF tx.from = BadSig THEN [ok |-> FALSE, err |-> errUnAuthorizedTx]
    ELSE IF tx.from = header.coinbase /\ isToSystemContract(tx.to) /\ tx.gasPrice = 0
         THEN [ok |-> TRUE, err |-> Nil]
    ELSE [ok |-> FALSE, err |-> Nil]

(* the transactions of a block offered to IsSystemTransaction *)
BlockTxs ==
    [to : {NilTo, NoAddr, SystemAddress} \cup Addrs \cup systemContracts,
     from : {BadSig} \cup Addrs, gasPrice : {0, 1}]

(* Zephyria.IsSystemTransaction *)
IsSystemTransactionCall ==
    /\ fin.op = "none"
    /\ \E tx \in BlockTxs, cb \in Addrs :
        LET header == WellFormed(chain, cb, now)
            out == IsSystemTransaction(tx, header)
        IN fin' = [op |-> "IsSystemTransaction", tx |-> tx, header |-> header,
                   ok |-> out.ok, err |-> out.err]
    /\ UNCHANGED <<storeVars, lockVars, chainVars, verifyVars, sealVars, batchVars>>

(* the caller takes the result *)
FinReturn ==
    /\ fin.op # "none"
    /\ fin' = NoFin
    /\ UNCHANGED <<storeVars, lockVars, chainVars, verifyVars, sealVars, batchVars>>

InitFin ==
    /\ chain = <<GenesisHeader(Addrs)>>
    /\ now = MaxTime
    /\ fakeDiff = FALSE
    /\ val = NoAddr
    /\ QuietVerify /\ QuietSeal /\ QuietBatch /\ QuietLock /\ QuietStore
    /\ fin = NoFin

NextFin ==
    \/ (fin.op = "none" /\ Authorize)
    \/ (fin.op = "none" /\ Len(chain) <= MaxImports /\ ImportEarliest)
    \/ FinalizeCall \/ FinalizeAndAssembleCall \/ IsSystemTransactionCall \/ FinReturn

SpecFin == InitFin /\ [][NextFin]_vars

----------------------------------------------------------------------------
(* Properties of the system-transaction tail *)

Finalized == fin.op = "Finalize"
Assembled == fin.op = "FinalizeAndAssemble" /\ fin.err = Nil

FinSnap == snapshot(chain, fin.header.number - 1, fin.header.parentHash, <<>>).snap
FinSpoiled == supposeValidator(FinSnap)

(* the header is out of turn and the supposed validator is not among the recents *)
FinSlashDue ==
    /\ fin.header.difficulty # diffInTurn
    /\ ~(\E n \in DOMAIN FinSnap.Recents : FinSnap.Recents[n] = FinSpoiled)

(* the producer signs as the coinbase and the call to contract c does not fail *)
FinApplies(c) ==
    fin.val = fin.header.coinbase /\ fin.env.signOk /\ c \notin fin.env.fails

IsInit(tx) == tx.data.method = "init"
IsSlash(tx) == tx.data.method = "slash"
IsDistribution(tx) == tx.data.method \in {"deposit", ""}

Rank(tx) == IF IsInit(tx) THEN 1 ELSE IF IsSlash(tx) THEN 2 ELSE 3
Ordered(txs) == \A i, j \in 1 .. Len(txs) : i < j => Rank(txs[i]) <= Rank(txs[j])
CountOf(txs, P(_)) == Cardinality({i \in 1 .. Len(txs) : P(txs[i])})

(* what a system transaction calls: the contract, the value, the call data *)
Content(tx) == <<tx.to, tx.value, tx.data>>
Contents(txs) == [i \in 1 .. Len(txs) |-> Content(txs[i])]

SlashContent(x) == <<SlashContract, 0, Pack("slash", x)>>
DepositContent(v, amount) == <<ValidatorController, amount, Pack("deposit", v)>>
RewardContent(amount) == <<SystemRewardContract, amount, NilData>>

(* C7 as stated: Finalize returns an error whenever the received tail is not the
   sequence of system transactions it expects (the init calls at block 1, the slash
   call at an out-of-turn block, the distribution calls): one of them missing, out of
   order, or of another signed hash.  Stated where no call to a contract fails. *)
C7_MismatchFailsBlock ==
    (Finalized /\ fin.env.fails = {}
       /\ fin.received # ProducedTail(chain, fin.header, fin.bs, fin.montanas))
    => fin.err # Nil

(* C8: Finalize returns an error whenever a received system transaction is left
   unconsumed: it returns nil only with none left, and its length error is returned
   exactly with one left after the distribution matched. *)
C8_LeftoverFailsBlock ==
    Finalized =>
        /\ Len(fin.remaining) > 0 => fin.err # Nil
        /\ fin.err = errSystemTxsLength => Len(fin.remaining) > 0

C8_Witness ==
    /\ Finalized /\ fin.err = errSystemTxsLength
    /\ Len(fin.remaining) = 1 /\ Len(fin.txs) = 2 /\ fin.env = OkEnv

(* C9 as stated: the tail of FinalizeAndAssemble is ordered inits, slash, distribution;
   the init calls are there only at number 1, one per system contract in the listed
   order; there is at most one slash, of the supposed validator, and it is there if
   and only if the difficulty is not 2 and the supposed validator has not signed
   recently. *)
C9_TailOrderedSlashIff ==
    Assembled =>
        /\ Ordered(fin.txs)
        /\ CountOf(fin.txs, IsInit) = (IF fin.header.number = 1 THEN Len(initContracts) ELSE 0)
        /\ \A i \in 1 .. Len(fin.txs) : IsInit(fin.txs[i]) => fin.txs[i].to = initContracts[i]
        /\ CountOf(fin.txs, IsSlash) <= 1
        /\ \A i \in 1 .. Len(fin.txs) :
              IsSlash(fin.txs[i]) => Content(fin.txs[i]) = SlashContent(FinSpoiled)
        /\ CountOf(fin.txs, IsSlash) = 1 <=> FinSlashDue

(* C9 amended: the tail of FinalizeAndAssemble is ordered inits, slash, distribution;
   init calls are there only at number 1 and are the listed contracts in their order
   up to the first call that fails, all of them when none fails; there is at most one
   slash, of the supposed validator, only if the difficulty is not 2 and the supposed
   validator has not signed recently, and under that condition it is there exactly
   when the slash call is signed and applied without error. *)
C9_TailOrderedSlashOnlyIf ==
    Assembled =>
        /\ Ordered(fin.txs)
        /\ CountOf(fin.txs, IsInit) > 0 => fin.header.number = 1
        /\ \A i \in 1 .. Len(fin.txs) : IsInit(fin.txs[i]) => fin.txs[i].to = initContracts[i]
        /\ (fin.header.number = 1 /\ fin.val = fin.header.coinbase /\ fin.env.signOk)
              => CountOf(fin.txs, IsInit) =
                   (IF \E i \in 1 .. Len(initContracts) : initContracts[i] \in fin.env.fails
                    THEN (CHOOSE i \in 1 .. Len(initContracts) :
                             initContracts[i] \in fin.env.fails) - 1
                    ELSE Len(initContracts))
        /\ CountOf(fin.txs, IsSlash) <= 1
        /\ \A i \in 1 .. Len(fin.txs) :
              IsSlash(fin.txs[i]) => Content(fin.txs[i]) = SlashContent(FinSpoiled)
        /\ CountOf(fin.txs, IsSlash) = 1 <=> (FinSlashDue /\ FinApplies(SlashContract))

C9_Witness ==
    /\ Assembled /\ fin.header.number = 1 /\ FinSlashDue
    /\ CountOf(fin.txs, IsInit) = Len(initContracts)
    /\ CountOf(fin.txs, IsSlash) = 1 /\ CountOf(fin.txs, IsDistribution) = 2

(* the distribution calls that distributeIncoming owes for the balances of the call *)
FinDistribution ==
    LET b == fin.bs[1]
        rewards == b \div (2 ^ systemRewardPercent)
    IN IF b = 0 THEN <<>>
       ELSE IF fin.bs[2] < maxSystemBalance /\ rewards > 0
            THEN <<RewardContent(rewards), DepositContent(fin.header.coinbase, b - rewards)>>
       ELSE <<DepositContent(fin.header.coinbase, b)>>

(* C10 as stated: the tail of every finalized block holds exactly one distribution
   transaction whatever the balance of the system address, and at an out-of-turn block
   (number # 1) whose supposed validator X has not signed recently the tail is exactly
   slash(X) followed by the one deposit to the coinbase. *)
C10_OneDistributionWhateverBalance ==
    Assembled =>
        /\ CountOf(fin.txs, IsDistribution) = 1
        /\ (fin.header.number # 1 /\ FinSlashDue) =>
              /\ Len(fin.txs) = 2
              /\ Content(fin.txs[1]) = SlashContent(FinSpoiled)
              /\ Content(fin.txs[2]) = DepositContent(fin.header.coinbase, fin.bs[1])

(* C10 amended: the distribution part of a finalized block's tail is empty when the
   system address holds nothing, else the deposit of the whole balance to the coinbase,
   preceded by the transfer of balance >> 4 to the system reward contract (the deposit
   reduced by it) when that contract holds less than 100 ether and the share is
   positive; at a block with number # 1 the tail is that distribution part, preceded by
   slash(X) exactly when the block is out of turn, X has not signed recently and the
   slash call is signed and applied without error. *)
C10_DistributionFollowsBalance ==
    Assembled =>
        /\ SubSeq(Contents(fin.txs), Len(fin.txs) - Len(FinDistribution) + 1, Len(fin.txs))
              = FinDistribution
        /\ CountOf(fin.txs, IsDistribution) = Len(FinDistribution)
        /\ fin.header.number # 1 =>
              Contents(fin.txs) =
                  (IF FinSlashDue /\ FinApplies(SlashContract)
                   THEN <<SlashContent(FinSpoiled)>> ELSE <<>>) \o FinDistribution

C10_Witness ==
    /\ Assembled /\ fin.header.number = 2 /\ FinSlashDue
    /\ fin.bs = <<MaxBalance, 0>>
    /\ Contents(fin.txs) = <<SlashContent(FinSpoiled)>> \o FinDistribution
    /\ Len(fin.txs) = 3

(* the share of the system balance that is owed to the system reward contract *)
FinRewardShare ==
    IF fin.bs[2] < maxSystemBalance /\ fin.bs[1] \div (2 ^ systemRewardPercent) > 0
    THEN fin.bs[1] \div (2 ^ systemRewardPercent)
    ELSE 0

DistributionValues ==
    [i \in 1 .. CountOf(fin.txs, IsDistribution) |->
        fin.txs[Len(fin.txs) - CountOf(fin.txs, IsDistribution) + i].value]

(* C11: a call that reaches distributeIncoming with a system balance b > 0 leaves the
   system address at 0 and the b with the coinbase and the two contracts; when
   distributeIncoming returns no error the system reward contract has received r and
   the validator contract b - r, with r = b >> 4 when the reward contract held less
   than 100 ether and b >> 4 > 0, and r = 0 (no transfer) otherwise; the transfers sum
   to b and none is negative. *)
C11_DistributionSplitsBalance ==
    (fin.op \in {"Finalize", "FinalizeAndAssemble"} /\ fin.bs[1] > 0) =>
        /\ fin.bal[SystemAddress] = 0
        /\ fin.bal[fin.header.coinbase] + fin.bal[SystemRewardContract]
             + fin.bal[ValidatorController] = fin.bs[1] + fin.bs[2]
        /\ fin.err \in {Nil, errSystemGas} =>
              /\ fin.bal[SystemRewardContract] = fin.bs[2] + FinRewardShare
              /\ fin.bal[ValidatorController] = fin.bs[1] - FinRewardShare
              /\ fin.bal[fin.header.coinbase] = 0
              /\ DistributionValues =
                    (IF FinRewardShare > 0 THEN <<FinRewardShare>> ELSE <<>>)
                    \o <<fin.bs[1] - FinRewardShare>>
              /\ \A i \in DOMAIN DistributionValues : DistributionValues[i] >= 0

C11_Witness ==
    /\ fin.op = "FinalizeAndAssemble" /\ fin.err = Nil
    /\ fin.bs = <<MaxBalance, 0>> /\ FinRewardShare = 2
    /\ fin.bal[SystemRewardContract] = 2 /\ fin.bal[ValidatorController] = MaxBalance - 2

(* C12: producer and verifier agree: given, for the same chain, header, balances and
   failing contracts, a tail that FinalizeAndAssemble emits with val = coinbase,
   Finalize consumes every transaction of it in order and returns no error. *)
C12_ProducerVerifierAgree ==
    (Finalized /\ fin.received \in EmittedTails(chain, fin.header, fin.bs, fin.montanas, fin.env))
    => (fin.err = Nil /\ fin.remaining = <<>> /\ fin.txs = fin.received)

C12_Witness ==
    /\ Finalized /\ fin.header.number = 1 /\ fin.env.fails = {GovHubContract}
    /\ fin.received \in EmittedTails(chain, fin.header, fin.bs, fin.montanas, fin.env)
    /\ Len(fin.received) = 9 /\ fin.err = Nil

(* C13: IsSystemTransaction returns true if and only if the transaction has a
   recipient, the recipient is one of the ten system contracts, a sender is recovered
   and equals header.coinbase, and the gas price is 0; a contract creation is never a
   system transaction. *)
C13_SystemTxRecognized ==
    fin.op = "IsSystemTransaction" =>
        /\ fin.ok <=> /\ fin.tx.to # NilTo
                      /\ fin.tx.to \in systemContracts
                      /\ fin.tx.from # BadSig /\ fin.tx.from = fin.header.coinbase
                      /\ fin.tx.gasPrice = 0
        /\ fin.tx.to = NilTo => (~fin.ok /\ fin.err = Nil)

C13_Witness ==
    /\ fin.op = "IsSystemTransaction" /\ fin.ok
    /\ fin.tx.to = SlashContract /\ fin.tx.from = fin.header.coinbase

----------------------------------------------------------------------------
(* Zephyria.snapshot with the snapshots held in memory and stored on disk *)

checkpointInterval == 2          \* the interval (in blocks) of the snapshots kept on disk
FullImmutabilityThreshold == 2   \* params.FullImmutabilityThreshold, in blocks
SnapEpoch == 2                   \* a short p.config.Epoch
MaxSnapNumber == 5               \* the highest block of the chains that are replayed

Lookup(store, hash) == {s \in store : s.Hash = hash}

(* Add / store: the entry of the same hash is replaced *)
Put(store, snap) == {s \in store : s.Hash # snap.Hash} \cup {snap}

(* the backward walk from (number, hash) with n headers gathered so far, and the
   forward apply of the gathered headers on the snapshot the walk stopped at;
   made is the checkpoint snapshot the walk created and stored, if any, and
   gathered the number of headers it gathered *)
RECURSIVE snapshotWalk(_, _, _, _, _, _, _)
snapshotWalk(ch, number, hash, parents, n, mem, disk) ==
    LET checkpoint == GetHeaderByNumber(ch, number)
        parsed == ParseValidators(checkpoint)
        fromParents == Len(parents) > 0
        header == IF fromParents THEN parents[Len(parents)]
                  ELSE GetHeader(ch, hash, number)
        rest == IF fromParents THEN SubSeq(parents, 1, Len(parents) - 1) ELSE <<>>
        fresh == newSnapshot(number, Hash(checkpoint), parsed.vals)
    IN IF Lookup(mem, hash) # {}
       THEN [err |-> Nil, snap |-> CHOOSE s \in Lookup(mem, hash) : TRUE, made |-> {}, gathered |-> n]
       ELSE IF number % checkpointInterval = 0 /\ Lookup(disk, hash) # {}
       THEN [err |-> Nil, snap |-> CHOOSE s \in Lookup(disk, hash) : TRUE, made |-> {}, gathered |-> n]
       ELSE IF (number = 0 \/ (number % Epoch = 0 /\ n > FullImmutabilityThreshold))
               /\ checkpoint # NoHeader
       THEN IF checkpoint.extraLen <= extraVanity + extraSeal
            THEN [err |-> errGenesisExtra, snap |-> Nil, made |-> {}, gathered |-> n]
            ELSE IF parsed.err # Nil THEN [err |-> parsed.err, snap |-> Nil, made |-> {}, gathered |-> n]
            ELSE [err |-> Nil, snap |-> fresh, made |-> {fresh}, gathered |-> n]
       ELSE IF fromParents /\ (Hash(header) # hash \/ header.number # number)
       THEN [err |-> ErrUnknownAncestor, snap |-> Nil, made |-> {}, gathered |-> n]
       ELSE IF header = NoHeader THEN [err |-> ErrUnknownAncestor, snap |-> Nil, made |-> {}, gathered |-> n]
       ELSE LET prev == snapshotWalk(ch, number - 1, header.parentHash, rest, n + 1, mem, disk)
                next == applyHeader(prev.snap, header)
            IN IF prev.err # Nil THEN prev
               ELSE [err |-> next.err, snap |-> next.snap, made |-> prev.made,
                     gathered |-> prev.gathered]

(* the whole call: the result, the memory and the disk after it *)
snapshotWith(ch, number, hash, parents, mem, disk) ==
    LET w == snapshotWalk(ch, number, hash, parents, 0, mem, disk)
        disk1 == IF w.made = {} THEN disk ELSE Put(disk, CHOOSE s \in w.made : TRUE)
    IN [err |-> w.err, snap |-> w.snap, gathered |-> w.gathered,
        mem |-> IF w.err = Nil THEN Put(mem, w.snap) ELSE mem,
        disk |-> IF w.err = Nil /\ w.snap.Number % checkpointInterval = 0 /\ w.gathered > 0
                 THEN Put(disk1, w.snap) ELSE disk1]

(* the validator lists that an epoch header may carry *)
MaxValidators == 6

SnapAddrs == 1 .. MaxValidators

EpochLists == {{}, {1}, Addrs, SnapAddrs}

(* the header of validator cb on the head of ch at its earliest time, carrying the
   list vs if it is an epoch header *)
SnapHeader(ch, cb, vs) ==
    LET w == WellFormed(ch, cb, CurrentHeader(ch).time + period
                                + backOffTime(HeadSnap(ch), cb))
    IN IF w.number % Epoch = 0
       THEN [w EXCEPT !.extraVals = SortAsc(vs),
                      !.extraLen = extraVanity + validatorBytesLength * Cardinality(vs)
                                   + extraSeal]
       ELSE w

(* the chain driver imports a header that verifyHeader accepts *)
ExtendChain ==
    /\ fin.op = "none" /\ recentSnaps = {} /\ db = {}
    /\ Len(chain) <= MaxSnapNumber
    /\ HeadSnap(chain).Validators # {}
    /\ \E cb \in SnapAddrs, vs \in EpochLists :
        LET h == SnapHeader(chain, cb, vs)
        IN /\ (h.number % Epoch # 0 => vs = {})
           /\ verifyHeader(chain, h, <<>>, fakeDiff, h.time) = Nil
           /\ chain' = Append(chain, h)
    /\ UNCHANGED <<storeVars, lockVars, now, fakeDiff, val, verifyVars, sealVars, batchVars, fin>>

(* Zephyria.snapshot for a block of the chain, with nothing held in memory *)
SnapshotCall ==
    /\ fin.op = "none" /\ recentSnaps = {}
    /\ \E n \in 0 .. Len(chain) - 1 :
        LET out == snapshotWith(chain, n, Hash(chain[n + 1]), <<>>, recentSnaps, db)
        IN /\ fin' = [op |-> "snapshot", number |-> n, hash |-> Hash(chain[n + 1]),
                      err |-> out.err, snap |-> out.snap, gathered |-> out.gathered]
           /\ recentSnaps' = out.mem
           /\ db' = out.disk
    /\ UNCHANGED <<epoch, period, lockVars, chainVars, verifyVars, sealVars, batchVars>>

(* the caller takes the snapshot *)
SnapReturn ==
    /\ fin.op = "snapshot"
    /\ fin' = NoFin
    /\ UNCHANGED <<storeVars, lockVars, chainVars, verifyVars, sealVars, batchVars>>

(* the node restarts: New makes an empty cache over the same database *)
Restart ==
    /\ fin.op = "none" /\ recentSnaps # {}
    /\ recentSnaps' = {}
    /\ UNCHANGED <<epoch, period, lockVars, db, chainVars, verifyVars, sealVars, batchVars, fin>>

InitSnap ==
    /\ chain = <<GenesisHeader(Addrs)>>
    /\ now = 0
    /\ fakeDiff = FALSE
    /\ val = NoAddr
    /\ QuietVerify /\ QuietSeal /\ QuietBatch /\ QuietLock
    /\ fin = NoFin
    /\ epoch = SnapEpoch /\ recentSnaps = {} /\ db = {} /\ period = Period

NextSnap == ExtendChain \/ SnapshotCall \/ SnapReturn \/ Restart

SpecSnap == InitSnap /\ [][NextSnap]_vars

(* C14 as stated: the snapshot that snapshot(number, hash) returns is the one that the
   replay of the headers from genesis yields, wherever the backward walk stopped: at an
   entry held in memory, at a snapshot on disk, at genesis or at a trusted epoch
   checkpoint. *)
C14_SnapshotIndependentOfStart ==
    (fin.op = "snapshot" /\ fin.err = Nil)
    => /\ fin.snap.Validators = snapshot(chain, fin.number, fin.hash, <<>>).snap.Validators
       /\ fin.snap.Recents = snapshot(chain, fin.number, fin.hash, <<>>).snap.Recents

(* C15 as stated: in every snapshot reached from the genesis snapshot by applying
   headers that verifyHeader accepts, epoch headers included, the validator set is
   non-empty and has at most 255 members. *)
C15_ValidatorSetBounded ==
    \A n \in 0 .. Len(chain) - 1 :
        LET s == snapshot(chain, n, Hash(chain[n + 1]), <<>>)
        IN s.err = Nil =>
              (s.snap.Validators # {} /\ Cardinality(s.snap.Validators) <= 255)

(* the snapshots reached by apply: the replay of every prefix of the chain, and the
   snapshot that the last snapshot call returned *)
AppliedSnaps ==
    {snapshot(chain, n, Hash(chain[n + 1]), <<>>).snap : n \in 0 .. Len(chain) - 1}
    \cup (IF fin.op = "snapshot" /\ fin.err = Nil THEN {fin.snap} ELSE {})

(* C16: in every snapshot at height h reached by apply, with
   K = floor(len(validators)/2) + 1, recents holds at most K entries and every key
   lies in (h-K, h], also right after an epoch header has changed the validator set. *)
C16_RecentsWithinWindow ==
    \A s \in AppliedSnaps :
        LET K == (Cardinality(s.Validators) \div 2) + 1
        IN /\ Cardinality(DOMAIN s.Recents) <= K
           /\ \A n \in DOMAIN s.Recents : s.Number - K < n /\ n <= s.Number

C16_Witness ==
    /\ Len(chain) = SnapEpoch + 1
    /\ HeadSnap(chain).Validators = {1}
    /\ DOMAIN HeadSnap(chain).Recents = {SnapEpoch}
    /\ (SnapEpoch - 1) \in DOMAIN snapshot(chain, SnapEpoch - 1,
                                          chain[SnapEpoch + 1].parentHash, <<>>).snap.Recents

(* the signer of block n of the chain, and the limit K of the snapshot at block j *)
SignerOf(n) == chain[n + 1].signer

LimitAt(j) == RecentsLimit(snapshot(chain, j, Hash(chain[j + 1]), <<>>).snap.Validators)

(* C17: in a chain of headers that apply accepts, no validator is the signer of two
   blocks within a window of K consecutive blocks, K = floor(len(validators)/2) + 1
   of the snapshot in force for the later block. *)
C17_NoDoubleSignInWindow ==
    \A n \in 1 .. Len(chain) - 1 : \A m \in 1 .. n - 1 :
        n - m < LimitAt(n - 1) => SignerOf(m) # SignerOf(n)

(* C17, amended: no validator is the signer of two blocks m < n that lie within the
   window of every snapshot in force from block m to block n - 1, i.e. with
   n - m below the smallest limit K among the snapshots at m .. n - 1. *)
C17_NoDoubleSignInSettledWindow ==
    \A n \in 1 .. Len(chain) - 1 : \A m \in 1 .. n - 1 :
        (\A j \in m .. n - 1 : n - m < LimitAt(j)) => SignerOf(m) # SignerOf(n)

C17_Witness ==
    /\ Len(chain) = SnapEpoch + 3
    /\ LimitAt(SnapEpoch - 1) = 2
    /\ \A j \in SnapEpoch .. SnapEpoch + 1 : LimitAt(j) = 4
    /\ Cardinality({SignerOf(n) : n \in SnapEpoch .. SnapEpoch + 2}) = 3

(* the replayed snapshot at block n of the chain *)
SnapAt(n) == snapshot(chain, n, Hash(chain[n + 1]), <<>>).snap

(* C18: applying a header at an epoch boundary (number % epoch = 0) yields a snapshot
   whose validator set is exactly the address list carried in that header's
   extra-data, and whose recents keeps only the entries inside the window of the new
   set; at every other height apply leaves the validator set unchanged. *)
C18_EpochReplacesValidators ==
    /\ \A n \in 1 .. Len(chain) - 1 :
        IF n % Epoch = 0
        THEN /\ SnapAt(n).Validators = SeqToSet(chain[n + 1].extraVals)
             /\ Cardinality(SnapAt(n).Validators) * validatorBytesLength
                    = chain[n + 1].extraLen - extraVanity - extraSeal
             /\ \A k \in DOMAIN SnapAt(n).Recents :
                    /\ k > n - RecentsLimit(SeqToSet(chain[n + 1].extraVals))
                    /\ SnapAt(n).Recents[k] = SignerOf(k)
             /\ n \in DOMAIN SnapAt(n).Recents
        ELSE SnapAt(n).Validators = SnapAt(n - 1).Validators
    /\ (fin.op = "snapshot" /\ fin.err = Nil /\ fin.number > 0) =>
        IF fin.number % Epoch = 0
        THEN fin.snap.Validators = SeqToSet(chain[fin.number + 1].extraVals)
        ELSE fin.snap.Validators = SnapAt(fin.number - 1).Validators

C18_Witness ==
    /\ Len(chain) = SnapEpoch + 2
    /\ SnapAt(SnapEpoch - 1).Validators = Addrs
    /\ SnapAt(SnapEpoch).Validators = {1}
    /\ SnapAt(SnapEpoch + 1).Validators = {1}
    /\ fin.op = "snapshot" /\ fin.number = SnapEpoch /\ fin.snap.Validators = {1}

(* the snapshots a node holds or computes, and the snapshot that has the number and
   the validator set of s and nothing else of it *)
KnownSnaps ==
    {HeadSnap(chain)} \cup recentSnaps \cup db
    \cup (IF fin.op = "snapshot" /\ fin.err = Nil THEN {fin.snap} ELSE {})

SameSet(s) == newSnapshot(s.Number, NoHeader, s.Validators)

(* C19: backOffTime(snap, val) depends only on (snap.number, the validator set, val),
   and it returns 0 if and only if val is in-turn in snap. *)
C19_BackOffZeroIffInTurn ==
    \A s \in KnownSnaps : \A v \in SnapAddrs :
        LET delay == backOffTime(s, v)
        IN /\ delay = backOffTime(SameSet(s), v)
           /\ delay = 0 <=> inturn(s, v)

(* C19, amended: backOffTime(snap, val) depends only on (snap.number, the validator
   set, val), and it returns 0 if and only if val is in-turn in snap or val is not a
   validator of snap; a validator out of turn waits at least initialBackOffTime. *)
C19_BackOffZeroIffInTurnOrStranger ==
    \A s \in KnownSnaps : \A v \in SnapAddrs :
        LET delay == backOffTime(s, v)
        IN /\ delay = backOffTime(SameSet(s), v)
           /\ delay = 0 <=> (v \notin s.Validators \/ inturn(s, v))
           /\ delay # 0 => delay >= initialBackOffTime

C19_Witness ==
    /\ fin.op = "snapshot" /\ fin.err = Nil
    /\ fin.snap.Validators = Addrs
    /\ fin.snap.Recents # SnapAt(fin.number).Recents
    /\ \E v \in Addrs : backOffTime(fin.snap, v) = initialBackOffTime + wiggleTime
    /\ backOffTime(fin.snap, NumAddr + 1) = 0 /\ ~inturn(fin.snap, NumAddr + 1)

(* the checks of verifyHeader that precede the time check of verifyCascadingFields
   pass for the verified header, so that the time check is reached *)
TimeCheckReached ==
    /\ vOp = "VerifyHeader" /\ vHeader.number > 0
    /\ vHeader.time <= now
    /\ vHeader.extraLen >= extraVanity + extraSeal
    /\ (IF vHeader.number % Epoch = 0
        THEN (vHeader.extraLen - extraVanity - extraSeal) % validatorBytesLength = 0
        ELSE vHeader.extraLen = extraVanity + extraSeal)
    /\ vHeader.mixDigest = 0 /\ vHeader.uncleHash = "empty"
    /\ vHeader.difficulty # NilDiff
    /\ vHeader.baseFee = Nil /\ vHeader.withdrawalsHash = Nil
    /\ getParent(chain, vHeader, <<>>).err = Nil
    /\ ParentSnap.err = Nil

(* the earliest time of the verified header: parent time, period and back-off *)
EarliestTime ==
    getParent(chain, vHeader, <<>>).parent.time + period
        + backOffTime(ParentSnap.snap, vHeader.coinbase)

(* C20: every header with number > 0 accepted by verifyHeader has
   time >= parent.time + period + backoff(parent snapshot, coinbase); a header below
   that bound is rejected, with ErrFutureBlock when the time check is reached. *)
C20_AcceptedTimeRespectsBackOff ==
    /\ (vOp = "VerifyHeader" /\ vHeader.number > 0 /\ vErr = Nil) =>
          /\ TimeCheckReached
          /\ vHeader.time >= EarliestTime
    /\ (vOp = "VerifyHeader" /\ vHeader.number > 0
          /\ getParent(chain, vHeader, <<>>).err = Nil /\ ParentSnap.err = Nil
          /\ vHeader.time < EarliestTime) => vErr # Nil
    /\ (TimeCheckReached /\ vHeader.time < EarliestTime) => vErr = ErrFutureBlock

C20_Witness ==
    /\ TimeCheckReached /\ vErr = ErrFutureBlock
    /\ vHeader.time >= getParent(chain, vHeader, <<>>).parent.time + period
    /\ vHeader.time < EarliestTime
    /\ vHeader.coinbase \in ParentSnap.snap.Validators
    /\ vHeader.signer = vHeader.coinbase

----------------------------------------------------------------------------
(* Engine calls of the block producer: Prepare, CalcDifficulty, Seal's results *)

errCurrentValidators == "errCurrentValidators"   \* getCurrentValidators failed

EmptyNonce == 0        \* types.BlockNonce{}

nextForkHashSize == 4

(* header.Time after Prepare: the earliest time of the validator, or the clock *)
prepareTime_Earliest(parent, snap, v, clock) ==
    parent.time + period + backOffTime(snap, v)

prepareTime(parent, snap, v, clock) ==
    LET t == parent.time + period + backOffTime(snap, v)
    IN IF t < clock THEN clock ELSE t

(* Zephyria.Prepare on header (with its nonce) for the local validator v at time
   clock; cur is the outcome of getCurrentValidators. The header is changed in
   place, so an error leaves the fields written before it. *)
Prepare(ch, header, nonce, v, clock, cur) ==
    LET h1 == [header EXCEPT !.coinbase = v]
        s == snapshot(ch, header.number - 1, header.parentHash, <<>>)
        h2 == [h1 EXCEPT !.difficulty = CalcDifficulty(s.snap, v)]
        parent == GetHeader(ch, header.parentHash, header.number - 1)
        h3 == [h2 EXCEPT !.time = prepareTime(parent, s.snap, v, clock),
                         !.extraLen = extraVanity, !.extraVals = <<>>]
        isEpoch == header.number % Epoch = 0
        h4 == IF isEpoch
              THEN [h3 EXCEPT !.extraVals = SortAsc(cur.vals),
                              !.extraLen = extraVanity
                                  + validatorBytesLength * Cardinality(cur.vals)]
              ELSE h3
        h5 == [h4 EXCEPT !.extraLen = h4.extraLen + extraSeal, !.mixDigest = 0]
    IN IF s.err # Nil THEN [err |-> s.err, header |-> h1, nonce |-> EmptyNonce]
       ELSE IF parent = NoHeader
            THEN [err |-> ErrUnknownAncestor,
                  header |-> [h2 EXCEPT !.extraLen =
                                 IF header.extraLen < extraVanity - nextForkHashSize
                                 THEN extraVanity - nextForkHashSize ELSE header.extraLen],
                  nonce |-> EmptyNonce]
       ELSE IF isEpoch /\ cur.err # Nil
            THEN [err |-> cur.err, header |-> h3, nonce |-> EmptyNonce]
       ELSE [err |-> Nil, header |-> h5, nonce |-> EmptyNonce]

(* the outcomes of getCurrentValidators: a validator list of the contract, or an error *)
CurrentValidators ==
    {[err |-> Nil, vals |-> vs] : vs \in {{1}, Addrs}}
        \cup {[err |-> errCurrentValidators, vals |-> {}]}

(* the headers handed to Prepare: the next block on the head with fields left over from
   an earlier use, a block on an unknown parent, and a block with number 0 *)
PrepareInputs(ch) ==
    LET next == [NextHeader(ch, NumAddr, BadSig, NilDiff, 0)
                    EXCEPT !.mixDigest = 1, !.extraLen = 0]
    IN {next, [next EXCEPT !.extraLen = extraVanity + extraSeal + 1, !.coinbase = NoAddr],
        [next EXCEPT !.parentHash = ZeroHash], [next EXCEPT !.number = 0]}

(* the chain imports a verified header; an epoch header carries a validator list *)
ImportEpochHeader ==
    /\ fin.op = "none"
    /\ Len(chain) <= MaxNumber
    /\ \E cb \in Addrs, vs \in {{1}, Addrs} :
        LET h == SnapHeader(chain, cb, vs)
        IN /\ (h.number % Epoch # 0 => vs = Addrs)
           /\ verifyHeader(chain, h, <<>>, fakeDiff, now) = Nil
           /\ chain' = Append(chain, h)
    /\ UNCHANGED <<storeVars, lockVars, now, fakeDiff, val, verifyVars, sealVars, batchVars, fin>>

PrepareCall ==
    /\ fin.op = "none"
    /\ \E header \in PrepareInputs(chain), nonce \in {EmptyNonce, 1},
          cur \in CurrentValidators :
        LET out == Prepare(chain, header, nonce, val, now, cur)
        IN fin' = [op |-> "Prepare", in |-> header, cur |-> cur, err |-> out.err,
                   header |-> out.header, nonce |-> out.nonce]
    /\ UNCHANGED <<storeVars, lockVars, chainVars, verifyVars, sealVars, batchVars>>

InitEngine ==
    /\ chain = <<GenesisHeader(Addrs)>>
    /\ now = 0
    /\ fakeDiff = FALSE
    /\ val = NoAddr
    /\ QuietVerify /\ QuietSeal /\ QuietBatch /\ QuietLock
    /\ fin = NoFin
    /\ epoch = SnapEpoch /\ recentSnaps = {} /\ db = {} /\ period = Period

(* the parent of the header given to Prepare and the snapshot at that parent *)
PrepParent == GetHeader(chain, fin.in.parentHash, fin.in.number - 1)

PrepSnap == snapshot(chain, fin.in.number - 1, fin.in.parentHash, <<>>)

(* C21: Prepare sets header.coinbase to the local validator, zeroes nonce and
   mix-digest, sets difficulty to 2 if the local validator is in-turn in the parent
   snapshot and 1 otherwise, and sets header.time to the larger of the clock and
   parent.time + period + backoff(snap, val); with an unknown parent or a failing
   snapshot it returns the error. *)
C21_PrepareFillsHeader ==
    fin.op = "Prepare" =>
        /\ fin.header.coinbase = val /\ fin.nonce = EmptyNonce
        /\ fin.err = Nil =>
              /\ PrepSnap.err = Nil /\ PrepParent # NoHeader
              /\ fin.header.mixDigest = 0
              /\ fin.header.difficulty =
                    (IF inturn(PrepSnap.snap, val) THEN diffInTurn ELSE diffNoTurn)
              /\ fin.header.time >= now
              /\ fin.header.time >= PrepParent.time + period + backOffTime(PrepSnap.snap, val)
              /\ fin.header.time \in
                    {now, PrepParent.time + period + backOffTime(PrepSnap.snap, val)}
        /\ PrepSnap.err # Nil => fin.err = PrepSnap.err
        /\ (PrepSnap.err = Nil /\ PrepParent = NoHeader) => fin.err = ErrUnknownAncestor

C21_Witness ==
    /\ fin.op = "Prepare" /\ fin.err = Nil
    /\ fin.in.mixDigest = 1 /\ fin.in.coinbase # val
    /\ val \in PrepSnap.snap.Validators /\ ~inturn(PrepSnap.snap, val)
    /\ fin.header.difficulty = diffNoTurn
    /\ fin.header.time = PrepParent.time + period + backOffTime(PrepSnap.snap, val)
    /\ fin.header.time > now

(* the snapshot at the parent of header h, and the preconditions of Seal for the
   block of header h with the local validator v *)
SnapBefore(h) == snapshot(chain, h.number - 1, h.parentHash, <<>>)

SealAllowed(h, v, hasTxs) ==
    /\ h.number # 0
    /\ ~(period = 0 /\ ~hasTxs)
    /\ SnapBefore(h).err = Nil
    /\ v \in SnapBefore(h).snap.Validators
    /\ ~SignRecently(SnapBefore(h).snap, v)

(* C22: Seal never delivers a block to the results sink when a precondition fails:
   the block is genesis, the chain has period 0 and the block has no transactions,
   the local validator is not in the parent snapshot's validator set, or the local
   validator has signed recently. *)
C22_NoDeliveryWithoutPreconditions ==
    /\ \A i \in 1 .. Len(sealOut) : SealAllowed(sealOut[i], sealOut[i].signer, sealTxs)
    /\ (sealPc # "Idle" /\ ~SealAllowed(sealHdr, val, sealTxs))
        => (sealPc = "Returned" /\ sealOut = <<>>)

C22_Witness ==
    /\ sealPc = "Returned" /\ sealOut = <<>>
    /\ period = 0 /\ ~sealTxs
    /\ sealHdr.number = 2
    /\ SnapBefore(sealHdr).err = Nil
    /\ val \in SnapBefore(sealHdr).snap.Validators
    /\ ~SignRecently(SnapBefore(sealHdr).snap, val)

(* C23: when sealing an out-of-turn block (difficulty 1) while the highest verified
   header has the same parent as the block being sealed, the seal waits an additional
   processBackOffTime after the delay, and if the chain head has advanced past
   header.number by the end of that wait it aborts without delivering a block; an
   in-turn seal (difficulty 2) never enters this extra wait. *)
C23_OutOfTurnWaitsForPeer ==
    [][ /\ (sealPc = "WaitingDelay" /\ sealPc' # sealPc /\ ~stopSeen')
            => /\ (sealPc' = "WaitingPeer")
                    <=> /\ sealHdr.difficulty = diffNoTurn
                        /\ sealSeen' # NoHeader
                        /\ sealSeen'.parentHash = sealHdr.parentHash
               /\ sealPc' = "WaitingPeer" => sealWake' = now + processBackOffTime
               /\ sealPc' # "WaitingPeer" => sealPc' = "Delivering"
        /\ (sealPc = "WaitingPeer" /\ sealPc' # sealPc)
            => /\ sealOut' = sealOut
               /\ sealHdr.difficulty # diffInTurn
               /\ sealPc' = "Delivering"
                    => (now >= sealWake /\ CurrentHeader(chain).number < sealHdr.number)
               /\ CurrentHeader(chain).number > sealHdr.number => sealPc' = "Aborted"
        /\ (sealPc = "Aborted" => sealOut' = sealOut)
        /\ (sealPc' = "WaitingPeer" => sealHdr'.difficulty # diffInTurn)
      ]_vars

C23_Witness ==
    /\ sealPc = "Aborted" /\ ~stopSeen /\ ~stop
    /\ sealHdr.difficulty = diffNoTurn
    /\ sealSeen # NoHeader /\ sealSeen.parentHash = sealHdr.parentHash
    /\ CurrentHeader(chain).number > sealHdr.number
    /\ now >= sealWake
    /\ sealOut = <<>>

----------------------------------------------------------------------------
(* SealHash and the seal slot of extra-data, on the bytes of header.Extra *)

MaxPrefix == 2         \* longest extra-data before the seal slot, in bytes

panicShortExtra == "panic: slice bounds out of range"

(* the fields of a header that the signed encoding covers and the model of the
   consensus rules leaves out *)
SigHeader(h, extra, nonce) ==
    [extra |-> extra, nonce |-> nonce, root |-> 0, txHash |-> 0, receiptHash |-> 0,
     bloom |-> 0] @@ h

(* encodeSigHeader: the list that is RLP-encoded, an injective encoding of its items *)
encodeSigHeader_WholeExtra(header, chainId) ==
    IF Len(header.extra) < extraSeal THEN panicShortExtra
    ELSE <<chainId, header.parentHash, header.uncleHash, header.coinbase, header.root,
           header.txHash, header.receiptHash, header.bloom, header.difficulty,
           header.number, header.gasLimit, header.gasUsed, header.time,
           header.extra, header.mixDigest, header.nonce>>

encodeSigHeader(header, chainId) ==
    IF Len(header.extra) < extraSeal THEN panicShortExtra
    ELSE <<chainId, header.parentHash, header.uncleHash, header.coinbase, header.root,
           header.txHash, header.receiptHash, header.bloom, header.difficulty,
           header.number, header.gasLimit, header.gasUsed, header.time,
           SubSeq(header.extra, 1, Len(header.extra) - extraSeal),
           header.mixDigest, header.nonce>>

(* Keccak256 of the encoding, taken as collision free *)
SealHash(header, chainId) == encodeSigHeader(header, chainId)

ZephyriaRLP(header, chainId) == encodeSigHeader(header, chainId)

(* copy(header.Extra[len(header.Extra)-extraSeal:], sig) *)
copySeal(extra, sig) ==
    LET start == Len(extra) - extraSeal
    IN [i \in 1 .. Len(extra) |->
            IF i > start /\ i - start <= Len(sig) THEN sig[i - start] ELSE extra[i]]

(* Seal from the signing to the write of the signature, lines 1113-1119 *)
signAndSeal(header, chainId, sig) ==
    IF ZephyriaRLP(header, chainId) = panicShortExtra
    THEN [err |-> panicShortExtra, header |-> header]
    ELSE IF sig.err # Nil THEN [err |-> sig.err, header |-> header]
    ELSE [err |-> Nil, header |-> [header EXCEPT !.extra = copySeal(header.extra, sig.bytes)]]

Bytes == {0, 1, 255}

Fill(n, b) == [i \in 1 .. n |-> b]

(* seal slots: empty, a signature, and the signature with one byte changed *)
SealSlots ==
    {Fill(extraSeal, 0), Fill(extraSeal, 255), [Fill(extraSeal, 255) EXCEPT ![1] = 1],
     [Fill(extraSeal, 255) EXCEPT ![extraSeal] = 1]}

Prefixes == UNION {[1 .. n -> Bytes] : n \in 0 .. MaxPrefix}

(* the outcomes of signFn: 65 bytes, fewer bytes, or an error *)
Signatures ==
    {[err |-> Nil, bytes |-> s] : s \in SealSlots \cup {Fill(extraSeal + 1, 1), <<1, 1>>}}
        \cup {[err |-> "signFn error", bytes |-> <<>>]}

(* headers with extra-data of every prefix and seal slot, and one too short to hold
   a seal *)
SigHeaders(ch) ==
    {SigHeader(NextHeader(ch, 1, BadSig, d, 1), p \o s, EmptyNonce) :
        d \in {diffNoTurn, diffInTurn}, p \in Prefixes, s \in SealSlots}
    \cup {SigHeader(NextHeader(ch, 1, BadSig, diffNoTurn, 1), Fill(extraSeal - 1, 0),
                    EmptyNonce)}

SealHashCall ==
    /\ fin.op = "none"
    /\ \E header \in SigHeaders(chain), chainId \in {1, 2}, sig \in Signatures :
        LET out == signAndSeal(header, chainId, sig)
        IN fin' = [op |-> "SealHash", header |-> header, chainId |-> chainId,
                   sig |-> sig, err |-> out.err, sealed |-> out.header,
                   hash |-> SealHash(header, chainId),
                   hashSealed |-> SealHash(out.header, chainId)]
    /\ UNCHANGED <<storeVars, lockVars, chainVars, verifyVars, sealVars, batchVars>>

NextHash == SealHashCall \/ FinReturn

SpecHash == InitEngine /\ [][NextHash]_vars

(* header h with other bytes in the last extraSeal bytes of its extra-data *)
WithSlot(h, slot) ==
    [h EXCEPT !.extra = SubSeq(h.extra, 1, Len(h.extra) - extraSeal) \o slot]

(* C24: SealHash(header, chainId) is independent of the final 65 bytes of
   extra-data: two headers that differ only in those bytes have the same seal hash,
   so writing the signature into the seal slot during Seal changes neither the seal
   hash nor any other byte of extra-data. *)
C24_SealHashIgnoresSeal ==
    (fin.op = "SealHash" /\ Len(fin.header.extra) >= extraSeal) =>
        /\ \A slot \in SealSlots :
                SealHash(WithSlot(fin.header, slot), fin.chainId) = fin.hash
        /\ fin.hashSealed = fin.hash
        /\ fin.hash # panicShortExtra
        /\ Len(fin.sealed.extra) = Len(fin.header.extra)
        /\ \A i \in 1 .. Len(fin.header.extra) - extraSeal :
                fin.sealed.extra[i] = fin.header.extra[i]
        /\ [fin.sealed EXCEPT !.extra = fin.header.extra] = fin.header
        /\ (fin.err = Nil /\ Len(fin.sig.bytes) = extraSeal)
              => fin.sealed.extra
                   = SubSeq(fin.header.extra, 1, Len(fin.header.extra) - extraSeal)
                        \o fin.sig.bytes

C24_Witness ==
    /\ fin.op = "SealHash" /\ fin.err = Nil
    /\ Len(fin.header.extra) = MaxPrefix + extraSeal
    /\ fin.sig.bytes = Fill(extraSeal, 255)
    /\ fin.header.extra[MaxPrefix + 1] = 0
    /\ fin.sealed.extra # fin.header.extra
    /\ fin.hashSealed = fin.hash

----------------------------------------------------------------------------
(* The light-client precompile: pLightClient.Run and AstrumPLightClient.Verify *)

uint64TypeLength == 8
precompileContractInputMetaDataLength == 64

MaxHeight == 2         \* greatest height asked of the precompile

NilBytes == <<-1>>     \* a nil []byte, as distinct from an empty one
NilChain == <<>>       \* a nil consensus.ChainHeaderReader

errInvalidInput == "invalid input"
errInvalidInputSize == "invalid input: input size should be ..."
errInvalidInputLength == "invalid input length"
errInternal == "internal error"
panicNilChain == "panic: nil pointer dereference (chain)"
panicNilHeader == "panic: nil pointer dereference (header)"
panicSliceBounds == "panic: slice bounds out of range"

(* binary.BigEndian.PutUint64: the eight bytes of n, most significant first; the
   numbers encoded here are below 256^4, so the four leading bytes are zero *)
PutUint64(n) ==
    [i \in 1 .. uint64TypeLength |->
        IF uint64TypeLength - i > 3 THEN 0
        ELSE (n \div (256 ^ (uint64TypeLength - i))) % 256]

(* binary.BigEndian.Uint64(b) = n, for the eight bytes at the start of b *)
Uint64Is(b, n) == SubSeq(b, 1, uint64TypeLength) = PutUint64(n)

(* AstrumPLightClient.DecodeInput: the height is kept as the eight bytes read *)
DecodeInput(input) ==
    IF Len(input) # 64
    THEN [err |-> errInvalidInputLength, height |-> <<>>, hash |-> <<>>]
    ELSE [err |-> Nil, height |-> SubSeq(input, 1, uint64TypeLength),
          hash |-> SubSeq(input, 33, 64)]

(* AstrumPLightClient.EncodeHeader: result is the nil named return value, never
   allocated, so the first write, into result[0:32], is out of its bounds; the later
   writes are not reached *)
EncodeHeader(ch, height) ==
    LET header == IF \E n \in 0 .. Len(ch) - 1 : Uint64Is(height, n)
                  THEN GetHeaderByNumber(ch, CHOOSE n \in 0 .. Len(ch) - 1 :
                                                 Uint64Is(height, n))
                  ELSE NoHeader
        result == <<>>
    IN IF ch = NilChain THEN [panic |-> panicNilChain, result |-> NilBytes, err |-> Nil]
       ELSE IF header = NoHeader
            THEN [panic |-> panicNilHeader, result |-> NilBytes, err |-> Nil]
       ELSE IF Len(result) < 32
            THEN [panic |-> panicSliceBounds, result |-> NilBytes, err |-> Nil]
       ELSE [panic |-> Nil, result |-> result, err |-> Nil]

(* AstrumPLightClient.Verify *)
Verify(input, ch) ==
    LET data == DecodeInput(input)
    IN IF data.err # Nil THEN [panic |-> Nil, result |-> NilBytes, err |-> data.err]
       ELSE EncodeHeader(ch, data.height)

(* the first check of Run: the input must be longer than the metadata prefix *)
metaDataCheck_Skipped(input) == Nil

metaDataCheck(input) ==
    IF Len(input) <= precompileContractInputMetaDataLength THEN errInvalidInput ELSE Nil

(* the body of pLightClient.Run; its chain is a nil interface value *)
runBody(input) ==
    LET lo == precompileContractInputMetaDataLength - uint64TypeLength
        hi == precompileContractInputMetaDataLength
        out == Verify(input, NilChain)
    IN IF metaDataCheck(input) # Nil
       THEN [panic |-> Nil, result |-> NilBytes, err |-> metaDataCheck(input)]
       ELSE IF hi > Len(input)
            THEN [panic |-> panicSliceBounds, result |-> NilBytes, err |-> Nil]
       ELSE IF ~Uint64Is(SubSeq(input, lo + 1, hi),
                         Len(input) - precompileContractInputMetaDataLength)
            THEN [panic |-> Nil, result |-> NilBytes, err |-> errInvalidInputSize]
       ELSE IF out.panic # Nil THEN out
       ELSE IF out.err # Nil THEN [panic |-> Nil, result |-> NilBytes, err |-> out.err]
       ELSE out

(* pLightClient.Run: the deferred recover turns a panic into an error *)
Run(input) ==
    LET out == runBody(input)
    IN IF out.panic # Nil
       THEN [panic |-> Nil, result |-> NilBytes, err |-> errInternal]
       ELSE out

(* payloads: height in a 32-byte big-endian field, then a 32-byte hash *)
Payloads ==
    {Fill(24, 0) \o PutUint64(n) \o Fill(32, b) : n \in 0 .. MaxHeight, b \in {0, 255}}
    \cup {PutUint64(n) \o Fill(24, 0) \o Fill(32, 1) : n \in 0 .. MaxHeight}

MetaData(n) == Fill(56, 0) \o PutUint64(n)

(* the inputs of Run: too short, with every length field against every payload, with
   a length field of all ones, with a payload of the wrong size *)
RunInputs ==
    {Fill(n, 0) : n \in {0, 1, 63, 64}}
    \cup {MetaData(n) \o p : n \in {0, 1, 64, 65}, p \in Payloads}
    \cup {Fill(64, 255) \o p : p \in Payloads}
    \cup {MetaData(n) \o Fill(n, 1) : n \in {1, 63, 65}}

RunCall ==
    /\ fin.op = "none"
    /\ \E input \in RunInputs :
        LET out == Run(input)
        IN fin' = [op |-> "Run", input |-> input, panic |-> out.panic,
                   result |-> out.result, err |-> out.err]
    /\ UNCHANGED <<storeVars, lockVars, chainVars, verifyVars, sealVars, batchVars>>

(* Verify called with a chain, as Run would if it had one *)
VerifyCall ==
    /\ fin.op = "none"
    /\ \E input \in Payloads \cup RunInputs, ch \in {NilChain, chain} :
        LET out == Verify(input, ch)
        IN fin' = [op |-> "Verify", input |-> input, chain |-> ch, panic |-> out.panic,
                   result |-> out.result, err |-> out.err]
    /\ UNCHANGED <<storeVars, lockVars, chainVars, verifyVars, sealVars, batchVars>>

NextRun ==
    \/ (fin.op = "none" /\ Len(chain) <= MaxHeight /\ ImportEarliest)
    \/ RunCall \/ VerifyCall \/ FinReturn

SpecRun == InitFin /\ [][NextRun]_vars

(* C25: the precompile's Run never panics: for every input byte string it returns
   either an output or an error value, and any internal panic is converted into an
   "internal error" failure. *)
C25_RunNeverPanics ==
    fin.op = "Run" =>
        /\ fin.panic = Nil
        /\ \/ (fin.err = Nil /\ fin.result # NilBytes)
           \/ (fin.err # Nil /\ fin.result = NilBytes)
        /\ runBody(fin.input).panic # Nil => fin.err = errInternal
        /\ Len(fin.input) <= precompileContractInputMetaDataLength
              => fin.err = errInvalidInput

C25_Witness ==
    /\ fin.op = "Run" /\ Len(fin.input) = 63 /\ fin.err = errInvalidInput
    /\ fin.result = NilBytes

(* a well-formed input: the 64-byte metadata prefix whose last 8 bytes give the
   payload length 64, then a 64-byte payload of a height of the chain and a hash *)
WellFormedInput(input) ==
    /\ Len(input) = 128
    /\ SubSeq(input, 1, 64) = MetaData(64)
    /\ \E n \in 0 .. Len(chain) - 1 : SubSeq(input, 65, 96) = Fill(24, 0) \o PutUint64(n)

(* C26: for a well-formed precompile input, Run succeeds and returns the 288-byte
   canonical encoding of the header at that height. *)
C26_RunEncodesHeader ==
    (fin.op = "Run" /\ WellFormedInput(fin.input))
        => (fin.err = Nil /\ Len(fin.result) = 288)

(***************************************************************************)
(* The signer fields and p.lock.  Authorize runs as its statements, one at *)
(* a time, and every entry point that reads a signer field runs as its     *)
(* reads, one at a time, taking p.lock only where its code does.           *)
(***************************************************************************)

\* a value a 20-byte address read may return while the address is being written
TornAddr == NoAddr - 1

\* the signer fields each entry point reads, in the order of its code
signerReads(op) ==
    CASE op = "Prepare" -> <<"val", "val", "val">>
      [] op = "Seal" -> <<"val", "signFn">>
      [] op = "FinalizeAndAssemble" -> <<"val">>
      [] op = "applyTransaction" -> <<"val", "signTxFn">>
      [] op = "CalcDifficulty" -> <<"val">>
      [] op = "SignRecently" -> <<"val", "val">>
      [] op = "IsLocalBlock" -> <<"val">>

EntryPoints ==
    {"Prepare", "Seal", "FinalizeAndAssemble", "applyTransaction", "CalcDifficulty",
     "SignRecently", "IsLocalBlock"}

\* whether the entry point holds p.lock for reading around its reads
takesLock(op) == op = "Seal"

signerField(f) ==
    CASE f = "val" -> val [] f = "signFn" -> signFn [] f = "signTxFn" -> signTxFn

\* p.lock.Lock() of Authorize: waits for the readers and the writer to leave
AuthorizeLock ==
    /\ authPc.pc = "idle" /\ ~lock.writer /\ lock.readers = 0
    /\ \E v \in Addrs : authPc' = [pc |-> "val", v |-> v]
    /\ lock' = [lock EXCEPT !.writer = TRUE]
    /\ UNCHANGED <<storeVars, signFn, signTxFn, chainVars, verifyVars, sealVars, batchVars, fin>>

\* p.val = val
AuthorizeVal ==
    /\ authPc.pc = "val"
    /\ val' = authPc.v
    /\ authPc' = [authPc EXCEPT !.pc = "signFn"]
    /\ UNCHANGED <<storeVars, lock, signFn, signTxFn, chain, now, fakeDiff, verifyVars, sealVars,
                   batchVars, fin>>

\* p.signFn = signFn
AuthorizeSignFn ==
    /\ authPc.pc = "signFn"
    /\ signFn' = authPc.v
    /\ authPc' = [authPc EXCEPT !.pc = "signTxFn"]
    /\ UNCHANGED <<storeVars, lock, signTxFn, chainVars, verifyVars, sealVars, batchVars, fin>>

\* p.signTxFn = signTxFn
AuthorizeSignTxFn ==
    /\ authPc.pc = "signTxFn"
    /\ signTxFn' = authPc.v
    /\ authPc' = [authPc EXCEPT !.pc = "unlock"]
    /\ UNCHANGED <<storeVars, lock, signFn, chainVars, verifyVars, sealVars, batchVars, fin>>

\* the deferred p.lock.Unlock()
AuthorizeUnlock ==
    /\ authPc.pc = "unlock"
    /\ authPc' = [pc |-> "idle"]
    /\ lock' = [lock EXCEPT !.writer = FALSE]
    /\ UNCHANGED <<storeVars, signFn, signTxFn, chainVars, verifyVars, sealVars, batchVars, fin>>

\* an entry point is called: Seal takes p.lock.RLock(), the others nothing
ReadBegin ==
    /\ fin.op = "none"
    /\ \E op \in EntryPoints :
         /\ takesLock(op) => ~lock.writer
         /\ lock' = IF takesLock(op) THEN [lock EXCEPT !.readers = @ + 1] ELSE lock
         /\ fin' = [op |-> op, idx |-> 1, seen |-> <<>>, locked |-> takesLock(op),
                    raced |-> FALSE]
    /\ UNCHANGED <<storeVars, authPc, signFn, signTxFn, chainVars, verifyVars, sealVars,
                   batchVars>>

\* the values one read of a field can return: the field's value, and while
\* Authorize is about to store into the same field with no lock between them,
\* also the value being stored or a mixture of the two
readValues(f, locked) ==
    IF ~locked /\ authPc.pc = f
    THEN {signerField(f), authPc.v, TornAddr}
    ELSE {signerField(f)}

\* the entry point's next read of a signer field
ReadField ==
    /\ fin.op \in EntryPoints
    /\ fin.idx <= Len(signerReads(fin.op))
    /\ \E x \in readValues(signerReads(fin.op)[fin.idx], fin.locked) :
         fin' = [fin EXCEPT !.idx = @ + 1, !.seen = Append(@, x),
                            !.raced = @ \/ (~fin.locked /\ lock.writer)]
    /\ UNCHANGED <<storeVars, lockVars, chainVars, verifyVars, sealVars, batchVars>>

\* the entry point is past its reads: Seal calls p.lock.RUnlock()
ReadEnd ==
    /\ fin.op \in EntryPoints
    /\ fin.idx > Len(signerReads(fin.op))
    /\ lock' = IF fin.locked THEN [lock EXCEPT !.readers = @ - 1] ELSE lock
    /\ fin' = NoFin
    /\ UNCHANGED <<storeVars, authPc, signFn, signTxFn, chainVars, verifyVars, sealVars,
                   batchVars>>

NextLock ==
    \/ AuthorizeLock \/ AuthorizeVal \/ AuthorizeSignFn \/ AuthorizeSignTxFn \/ AuthorizeUnlock
    \/ ReadBegin \/ ReadField \/ ReadEnd

SpecLock == InitFin /\ [][NextLock]_vars

\* C27: no entry point reads a signer field while Authorize holds the write
\* lock: every read is made with the read lock held, and the reads of one call
\* all see the signer of one Authorize call.
C27_SignerReadsUnderLock ==
    fin.op \in EntryPoints =>
        /\ ~fin.raced
        /\ fin.idx > 1 => fin.locked
        /\ \A i, j \in DOMAIN fin.seen : fin.seen[i] = fin.seen[j]

(* the checks of Seal that end the call before it signs *)
SealPaused == period = 0 /\ ~sealTxs
SealSnapFailed == sealHdr.number # 0 /\ ~SealPaused /\ SnapBefore(sealHdr).err # Nil
SealUnauthorized ==
    /\ sealHdr.number # 0 /\ ~SealPaused /\ SnapBefore(sealHdr).err = Nil
    /\ val \notin SnapBefore(sealHdr).snap.Validators
SealSignedRecently ==
    /\ sealHdr.number # 0 /\ ~SealPaused /\ SnapBefore(sealHdr).err = Nil
    /\ val \in SnapBefore(sealHdr).snap.Validators
    /\ SignRecently(SnapBefore(sealHdr).snap, val)

(* C28 as stated: every failure of Seal (genesis block, snapshot unavailable,
   unauthorized local validator, recently signed, signing function error) makes Seal
   return nil, never an error value, and nothing is emitted to the result sink. *)
C28_SealFailuresReturnNil ==
    sealPc = "Returned" => (sealRet = Nil /\ sealOut = <<>>)

(* C28 amended: a Seal call that fails emits nothing to the result sink; it returns
   nil when the local validator has signed recently (and when a period-0 chain has no
   transactions to seal), and returns the error otherwise: errUnknownBlock for the
   genesis block, the snapshot's error, errUnauthorizedValidator, or the error of the
   signing function. *)
C28_SealFailuresEmitNothing ==
    sealPc = "Returned" =>
        /\ sealOut = <<>>
        /\ sealHdr.number = 0 => sealRet = errUnknownBlock
        /\ SealSnapFailed => sealRet = SnapBefore(sealHdr).err
        /\ SealUnauthorized => sealRet = errUnauthorizedValidator
        /\ SealSignedRecently => sealRet = Nil
        /\ SealAllowed(sealHdr, val, sealTxs) => sealRet = errSignFn
        /\ sealRet = Nil <=> sealHdr.number # 0 /\ (SealPaused \/ SealSignedRecently)

C28_Witness ==
    /\ sealPc = "Returned" /\ sealOut = <<>>
    /\ SealAllowed(sealHdr, val, sealTxs)
    /\ sealRet = errSignFn
    /\ sealHdr.number = 2

(* Zephyria.CalcDifficulty: the difficulty of a block on parent for the local
   validator, nil when the snapshot at parent cannot be built *)
Zephyria_CalcDifficulty(ch, time, parent, v) ==
    LET s == snapshot(ch, parent.number, Hash(parent), <<>>)
    IN IF s.err # Nil THEN NilDiff ELSE CalcDifficulty(s.snap, v)

(* the parents CalcDifficulty is asked about: the headers of the chain, and a
   header the chain has not imported *)
CalcDifficultyInputs(ch) ==
    {ch[i] : i \in 1 .. Len(ch)} \cup {NextHeader(ch, 1, 1, diffNoTurn, 0)}

CalcDifficultyCall ==
    /\ fin.op = "none"
    /\ \E parent \in CalcDifficultyInputs(chain), time \in {now, now + 1} :
        fin' = [op |-> "CalcDifficulty", parent |-> parent, time |-> time,
                result |-> Zephyria_CalcDifficulty(chain, time, parent, val)]
    /\ UNCHANGED <<storeVars, lockVars, chainVars, verifyVars, sealVars, batchVars>>

(* C29: the engine's CalcDifficulty(chain, time, parent) always returns a value in
   {1, 2}: 2 when the local validator is in-turn in the snapshot at parent, 1
   otherwise, for every parent including one whose snapshot cannot be retrieved. *)
C29_CalcDifficultyOneOrTwo ==
    fin.op = "CalcDifficulty" =>
        LET s == snapshot(chain, fin.parent.number, Hash(fin.parent), <<>>)
        IN /\ fin.result \in {diffNoTurn, diffInTurn}
           /\ fin.result = diffInTurn <=> (s.err = Nil /\ inturn(s.snap, val))

(* the lengths of the region between vanity and seal of the headers verified *)
RegionLengths ==
    {0, 1, validatorBytesLength, validatorBytesLength + 1, 2 * validatorBytesLength}

(* the headers handed to verifyHeader: a signed header on the chain head whose
   extra-data is cut short or carries a region of each length *)
VerifyHeaderInputs(ch) ==
    {[SnapHeader(ch, cb, Addrs) EXCEPT !.extraLen = n] :
        cb \in Addrs,
        n \in {extraVanity - 1, extraVanity + extraSeal - 1}
              \cup {extraVanity + extraSeal + r : r \in RegionLengths}}

(* headers that fail several checks of verifyHeader at once: an unknown parent
   together with a deviation of each stage *)
OrderInputs(ch) ==
    LET w == SnapHeader(ch, InTurnAddr(ch), Addrs)
    IN {[w EXCEPT !.parentHash = ph, !.mixDigest = md, !.withdrawalsHash = wh,
                  !.baseFee = bf, !.time = t, !.gasUsed = gu, !.signer = sg] :
            ph \in {w.parentHash, UnknownHash}, md \in {0, 1}, wh \in {Nil, "set"},
            bf \in {Nil, "set"}, t \in {w.time, w.time + 1, 0},
            gu \in {0, w.gasLimit + 1}, sg \in {w.signer, BadSig}}

(* the genesis header of the chain, as it is and with one structural fault *)
GenesisInputs(ch) == {ch[1], [ch[1] EXCEPT !.mixDigest = 1]}

VerifyHeaderCall ==
    /\ fin.op = "none"
    /\ \E header \in VerifyHeaderInputs(chain) \cup OrderInputs(chain)
                        \cup GenesisInputs(chain) :
        fin' = [op |-> "verifyHeader", header |-> header,
                err |-> verifyHeader(chain, header, <<>>, fakeDiff, now)]
    /\ UNCHANGED <<storeVars, lockVars, chainVars, verifyVars, sealVars, batchVars>>

(* the header reached the check of the region between vanity and seal *)
RegionCheckReached(header) ==
    /\ header.time <= now
    /\ header.extraLen >= extraVanity + extraSeal

(* C30: verifyHeader's structural check on extra-data: on an epoch block
   (number % epoch == 0) the region between the 32-byte vanity and the 65-byte seal
   must have a length that is a positive multiple of 20, else the header is rejected
   with errInvalidSpanValidators; on every other block the region must be empty, else
   the header is rejected with errExtraValidators. *)
C30_ExtraDataRegionChecked ==
    (fin.op = "verifyHeader" /\ RegionCheckReached(fin.header)) =>
        LET region == fin.header.extraLen - extraVanity - extraSeal
            isEpoch == fin.header.number % Epoch = 0
        IN /\ fin.err = errInvalidSpanValidators
                <=> (isEpoch /\ ~(region > 0 /\ region % validatorBytesLength = 0))
           /\ fin.err = errExtraValidators <=> (~isEpoch /\ region # 0)

(* the errors of the checks verifyHeader makes before it looks for the parent *)
EarlyErrors ==
    {ErrFutureBlock, errMissingVanity, errMissingSignature, errExtraValidators,
     errInvalidSpanValidators, errInvalidMixDigest, errInvalidUncleHash,
     errInvalidDifficulty}

(* the header breaks a rule that verifyHeader checks before it looks for the parent *)
EarlyViolation(h) ==
    \/ h.time > now
    \/ h.extraLen < extraVanity + extraSeal
    \/ (h.number % Epoch # 0 /\ h.extraLen # extraVanity + extraSeal)
    \/ (h.number % Epoch = 0
            /\ (h.extraLen - extraVanity - extraSeal) % validatorBytesLength # 0)
    \/ h.mixDigest # 0
    \/ h.uncleHash # "empty"
    \/ (h.number > 0 /\ h.difficulty = NilDiff)

ParentUnknown(h) == getParent(chain, h, <<>>).err # Nil

(* C31 as stated: verifyHeader applies its stages in the order structural, parent
   linkage, timing, gas envelope, seal, and reports the error of the first failing
   stage: a header that violates any structural rule (including a present withdrawals
   hash) is rejected with that structural error even when its parent is unknown, and a
   header with an unknown parent is rejected with ErrUnknownAncestor before any timing,
   gas or seal check. *)
C31_StructuralBeforeLinkage ==
    (fin.op = "verifyHeader" /\ fin.header.baseFee = Nil) =>
        /\ (EarlyViolation(fin.header) \/ fin.header.withdrawalsHash # Nil)
                => fin.err \in EarlyErrors \cup {errWithdrawals}
        /\ (~EarlyViolation(fin.header) /\ fin.header.withdrawalsHash = Nil
                /\ ParentUnknown(fin.header))
                => fin.err = ErrUnknownAncestor

(* C31 amended: verifyHeader reports the error of the first failing check in the order
   clock, extra-data, mix digest, uncle hash, difficulty present; then parent linkage;
   then base fee absent and withdrawals hash absent; then block time, gas envelope and
   seal.  A header with an unknown parent that passes the first group is rejected with
   ErrUnknownAncestor, also when its withdrawals hash is present, and before any block
   time, gas or seal check; a present withdrawals hash is reported only for a header
   whose parent is known. *)
C31_LinkageBeforeWithdrawals ==
    fin.op = "verifyHeader" =>
        /\ EarlyViolation(fin.header) => fin.err \in EarlyErrors
        /\ (~EarlyViolation(fin.header) /\ ParentUnknown(fin.header))
                => fin.err = ErrUnknownAncestor
        /\ (~EarlyViolation(fin.header) /\ ~ParentUnknown(fin.header)
                /\ fin.header.baseFee # Nil)
                => fin.err = errBaseFee
        /\ (~EarlyViolation(fin.header) /\ ~ParentUnknown(fin.header)
                /\ fin.header.baseFee = Nil /\ fin.header.withdrawalsHash # Nil)
                => fin.err = errWithdrawals
        /\ fin.err \in {errGasUsed, errInvalidSignature}
                => (~EarlyViolation(fin.header) /\ ~ParentUnknown(fin.header)
                    /\ fin.header.baseFee = Nil /\ fin.header.withdrawalsHash = Nil)

C31_Witness ==
    /\ fin.op = "verifyHeader" /\ fin.header.number = 2
    /\ ~EarlyViolation(fin.header) /\ ParentUnknown(fin.header)
    /\ fin.header.withdrawalsHash # Nil /\ fin.header.baseFee = Nil
    /\ fin.header.gasUsed > fin.header.gasLimit /\ fin.header.signer = BadSig
    /\ fin.err = ErrUnknownAncestor

(***************************************************************************)
(* The gas envelope of verifyCascadingFields, for parents of every gas     *)
(* limit: the genesis block is not verified, so its limit is any word.     *)
(***************************************************************************)

GasParents ==
    {MinGasLimit, 8192, GasWord \div 2 - 1, GasWord \div 2, GasWord \div 2 + MinGasLimit,
     GasWord - 1}

(* gas limits around the parent's, the minimum and the signed range *)
GasLimits(g) ==
    LET limit == g \div GasLimitBoundDivisor
    IN ({g, g - limit, g - limit + 1, g + limit - 1, g + limit, MinGasLimit - 1,
         MinGasLimit, MinGasLimit + 1, GasWord \div 2 - 1, GasWord \div 2,
         GasWord - 1 - g}
        \cap (0 .. GasWord - 1))

InitGas ==
    /\ \E g \in GasParents : chain = <<[GenesisHeader(Addrs) EXCEPT !.gasLimit = g]>>
    /\ now = 0
    /\ fakeDiff = FALSE
    /\ val = NoAddr
    /\ QuietVerify /\ QuietSeal /\ QuietBatch /\ QuietLock /\ QuietStore
    /\ fin = NoFin

GasCall ==
    /\ fin.op = "none"
    /\ \E cb \in Addrs, gl \in GasLimits(CurrentHeader(chain).gasLimit), over \in {-1, 0, 1} :
        LET used == IF over = -1 THEN 0 ELSE gl + over
            h == [SnapHeader(chain, cb, Addrs) EXCEPT !.gasLimit = gl, !.gasUsed = used]
        IN fin' = [op |-> "verifyCascadingFields", header |-> h,
                   err |-> verifyCascadingFields(chain, h, <<>>, fakeDiff)]
    /\ UNCHANGED <<storeVars, lockVars, chainVars, verifyVars, sealVars, batchVars>>

NextGas == GasCall \/ FinReturn

SpecGas == InitGas /\ [][NextGas]_vars

GasDistance(a, b) == IF a < b THEN b - a ELSE a - b

(* C32: every header accepted by verifyCascadingFields satisfies
   gasLimit <= 2^63-1 (the largest signed word), gasUsed <= gasLimit,
   |parent.gasLimit - header.gasLimit| < parent.gasLimit / 1024 and
   gasLimit >= MinGasLimit, for every unsigned parent.gasLimit, those above the
   largest signed word included. *)
C32_AcceptedGasInEnvelope ==
    (fin.op = "verifyCascadingFields" /\ fin.err = Nil) =>
        LET parent == CurrentHeader(chain)
        IN /\ fin.header.gasLimit <= GasWord \div 2 - 1
           /\ fin.header.gasUsed <= fin.header.gasLimit
           /\ GasDistance(parent.gasLimit, fin.header.gasLimit)
                < parent.gasLimit \div GasLimitBoundDivisor
           /\ fin.header.gasLimit >= MinGasLimit

(***************************************************************************)
(* The snapshot store on a chain whose epoch is not a multiple of          *)
(* checkpointInterval, as with the default epoch of 30000 and the interval *)
(* of 1024.                                                                *)
(***************************************************************************)

StoreEpoch == SnapEpoch + 1          \* an epoch that checkpointInterval does not divide
MaxStoreNumber == 2 * StoreEpoch     \* the highest block of the chain

InitStore ==
    /\ chain = <<GenesisHeader(Addrs)>>
    /\ now = 0
    /\ fakeDiff = FALSE
    /\ val = NoAddr
    /\ QuietVerify /\ QuietSeal /\ QuietBatch /\ QuietLock
    /\ fin = NoFin
    /\ epoch = StoreEpoch /\ recentSnaps = {} /\ db = {} /\ period = Period

(* the chain driver imports the header of the in-turn validator or of its successor *)
ImportInTurn ==
    /\ fin.op = "none" /\ recentSnaps = {} /\ db = {}
    /\ Len(chain) <= MaxStoreNumber
    /\ \E cb \in {InTurnAddr(chain), (InTurnAddr(chain) % NumAddr) + 1} :
        LET h == SnapHeader(chain, cb, Addrs)
        IN /\ verifyHeader(chain, h, <<>>, fakeDiff, h.time) = Nil
           /\ chain' = Append(chain, h)
    /\ UNCHANGED <<storeVars, lockVars, now, fakeDiff, val, verifyVars, sealVars, batchVars, fin>>

NextStore == ImportInTurn \/ SnapshotCall \/ SnapReturn \/ Restart

SpecStore == InitStore /\ [][NextStore]_vars

(* C33: snapshot retrieval writes to the database only snapshots whose height is
   divisible by checkpointInterval, and every snapshot it computes at such a height by
   applying at least one header is persisted. *)
C33_DatabaseOnlyAtCheckpoints ==
    /\ \A s \in db : s.Number % checkpointInterval = 0
    /\ (fin.op = "snapshot" /\ fin.err = Nil /\ fin.gathered > 0
            /\ fin.snap.Number % checkpointInterval = 0)
        => fin.snap \in db

(* the validators of the head snapshot that have not signed recently *)
FreeValidators(ch) == {v \in HeadSnap(ch).Validators : ~SignRecently(HeadSnap(ch), v)}

(* C34: the chain can always progress: in every snapshot reached from genesis by
   applying accepted headers, for every validator-set size n >= 1, at least one
   validator of the set has not signed recently and can therefore produce a next
   header that verifySeal accepts. *)
C34_SomeValidatorCanSign ==
    HeadSnap(chain).Validators # {} =>
        \E v \in FreeValidators(chain) :
            verifySeal(chain, WellFormed(chain, v, now), <<>>, fakeDiff) = Nil

(***************************************************************************)
(* The miner's use of the engine: Authorize, Prepare on the chain head,    *)
(* and Seal of the prepared header, with Authorize free to run between     *)
(* the two calls.                                                          *)
(***************************************************************************)

InitMine ==
    /\ chain = <<GenesisHeader(Addrs)>>
    /\ now = 0
    /\ fakeDiff = FALSE
    /\ val = NoAddr
    /\ QuietVerify /\ QuietSeal /\ QuietBatch /\ QuietLock /\ QuietStore
    /\ fin = NoFin

(* Seal of the block whose header Prepare has filled *)
SealPrepared ==
    /\ sealPc = "Idle" /\ fin.op = "Prepare" /\ fin.err = Nil
    /\ \E signOk \in BOOLEAN :
        LET r == sealPrelude(chain, fin.header, val, TRUE, signOk)
        IN /\ sealRet' = r.ret
           /\ sealPc' = IF r.go THEN "WaitingDelay" ELSE "Returned"
           /\ sealHdr' = IF r.go THEN [fin.header EXCEPT !.signer = val] ELSE fin.header
           /\ sealWake' = fin.header.time
           /\ sealTxs' = TRUE
    /\ UNCHANGED <<storeVars, lockVars, chainVars, verifyVars, sealSeen, stop, sealOut, stopSeen,
                   batchVars, fin>>

NextMine ==
    \/ (SealLive /\ Tick)
    \/ (sealPc = "Idle" /\ Authorize)
    \/ (SealLive /\ Len(chain) <= MaxImports /\ ImportHeader)
    \/ (sealPc = "Idle" /\ PrepareCall)
    \/ (sealPc = "Idle" /\ FinReturn)
    \/ SealPrepared \/ Stop
    \/ DelayStopped \/ DelayElapsed \/ PeerStopped \/ PeerElapsed \/ Deliver

SpecMine == InitMine /\ [][NextMine]_vars

(* C35: every block that Seal delivers to the results sink carries a header that
   verifySeal accepts against the same parent snapshot, in particular the recovered
   signer equals header.coinbase, under every interleaving of Authorize with Prepare
   and Seal. *)
C35_DeliveredBlockVerifies ==
    \A i \in 1 .. Len(sealOut) :
        /\ sealOut[i].signer = sealOut[i].coinbase
        /\ verifySeal(chain, sealOut[i], <<>>, fakeDiff) = Nil

(* C36: in a batch passed to VerifyHeaders, a header is reported valid only if every
   preceding header of the batch was reported valid: once header i yields an error,
   every header j > i (verified with the headers before it as trusted parents) also
   yields an error. *)
C36_ErrorsPersistInBatch ==
    \A i, j \in 1 .. Len(results) :
        (i < j /\ results[i] # Nil) => results[j] # Nil

(* the wait task of Seal under a fair scheduler: a select whose case is ready is
   taken, and the goroutine runs on *)
SealTaskFair ==
    /\ WF_vars(DelayStopped) /\ WF_vars(DelayElapsed)
    /\ WF_vars(PeerStopped) /\ WF_vars(PeerElapsed)
    /\ WF_vars(Deliver)

(* one Seal call on the genesis block by a validator authorized at the start, the
   chain growing while the task waits *)
NextTask ==
    \/ (sealPc # "Idle" /\ SealLive /\ Tick)
    \/ (sealPc = "Idle" /\ Authorize)
    \/ (sealPc # "Idle" /\ SealLive /\ Len(chain) = 1 /\ ImportHeader)
    \/ SealCall \/ Stop
    \/ DelayStopped \/ DelayElapsed \/ PeerStopped \/ PeerElapsed \/ Deliver

SpecSealFair == InitMine /\ [][NextTask]_vars /\ SealTaskFair

SealTaskEnded == sealPc \in {"Emitted", "Dropped", "Aborted"}

(* the task can run: it waits in a select whose timer has fired or whose stop is
   signalled, or it is at the final, non-blocking select *)
SealTaskReady ==
    \/ sealPc \in {"WaitingDelay", "WaitingPeer"} /\ (stop \/ now >= sealWake)
    \/ sealPc = "Delivering"

(* C37: each Seal call delivers at most one block, and its detached wait task
   terminates once its timers fire or stop is signalled: whenever the task waits on a
   timer that has fired or on a signalled stop, or stands at the final delivery, it
   goes on until it has ended or waits on a timer that has not fired; the final
   delivery never blocks, ending the task with the block emitted, or dropped when the
   results sink is not ready, and an ended task delivers nothing later. *)
C37_SealTaskTerminates ==
    /\ [](Len(sealOut) <= 1)
    /\ [](SealTaskEnded => (Len(sealOut) = 1 <=> sealPc = "Emitted"))
    /\ SealTaskReady ~> (SealTaskEnded \/ ~SealTaskReady)
    /\ [][SealTaskEnded => (sealPc' = sealPc /\ sealOut' = sealOut)]_vars

C37_Witness ==
    /\ sealPc = "Dropped" /\ sealOut = <<>>
    /\ sealHdr.difficulty = diffNoTurn /\ sealSeen # NoHeader
    /\ now >= sealWake /\ ~stop

(* C38 as stated: for a header that verifySeal accepts, the slash call that
   finalization issues never targets the block's own coinbase: when difficulty is not
   2, the parent snapshot's supposed in-turn validator is a member of the validator
   set different from header.coinbase. *)
C38_SlashNeverTargetsCoinbaseAlways ==
    (Verified /\ vErr = Nil /\ vHeader.difficulty # diffInTurn) =>
        /\ supposeValidator(ParentSnap.snap) \in ParentSnap.snap.Validators
        /\ supposeValidator(ParentSnap.snap) # vHeader.coinbase

(* C38 amended: with fakeDiff off, for a header that verifySeal accepts, the slash
   call that finalization issues never targets the block's own coinbase: when
   difficulty is not 2, the parent snapshot's supposed in-turn validator is a member of
   the validator set different from header.coinbase. *)
C38_SlashNeverTargetsCoinbase ==
    (Verified /\ vErr = Nil /\ ~fakeDiff /\ vHeader.difficulty # diffInTurn) =>
        /\ supposeValidator(ParentSnap.snap) \in ParentSnap.snap.Validators
        /\ supposeValidator(ParentSnap.snap) # vHeader.coinbase
        /\ \A montanas \in BOOLEAN :
              needSlash(vHeader, ParentSnap.snap, montanas)
                  => supposeValidator(ParentSnap.snap) # vHeader.coinbase

C38_Witness ==
    /\ vOp = "VerifySeal" /\ vErr = Nil /\ ~fakeDiff
    /\ vHeader.number = 2 /\ vHeader.difficulty = diffNoTurn
    /\ needSlash(vHeader, ParentSnap.snap, TRUE)
    /\ supposeValidator(ParentSnap.snap) # vHeader.coinbase


----------------------------------------------------------------------------
(* applyTransaction on its own: one system message against one context *)

(* the system messages that Finalize and FinalizeAndAssemble build *)
SystemMessages(cb, amount) ==
    {getSystemMessage(cb, SlashContract, Pack("slash", v), 0) : v \in Addrs}
    \cup {getSystemMessage(cb, SystemRewardContract, NilData, amount),
          getSystemMessage(cb, ValidatorController, Pack("deposit", cb), amount)}

(* the received lists that a message meets: none, a nil entry, the expected  *)
(* transaction alone or followed by another, one of another value, one of    *)
(* another nonce                                                             *)
ReceivedFor(msg, nonce) ==
    LET expectedTx == [NewTransaction(nonce, msg.to, msg.value, msg.data)
                          EXCEPT !.from = msg.from]
    IN {<<>>, <<NilTx>>, <<expectedTx>>,
        <<expectedTx, [expectedTx EXCEPT !.nonce = nonce + 1]>>,
        <<[expectedTx EXCEPT !.value = @ + 1]>>,
        <<[expectedTx EXCEPT !.nonce = nonce + 1]>>,
        <<[expectedTx EXCEPT !.nonce = nonce + 1], expectedTx>>}

(* the context after k system transactions of the block went through *)
ctxAfter(k, amount, cb, received) ==
    LET done == [i \in 1 .. k |->
                   [NewTransaction(i - 1, SlashContract, 0, Pack("init", NoAddr))
                       EXCEPT !.from = cb]]
        base == ctx0(<<0, 0>>, received)
    IN [base EXCEPT !.txs = done,
                    !.receipts = [i \in 1 .. k |-> NewReceipt(done[i], 1, i, i - 1)],
                    !.nonce = k, !.usedGas = k,
                    !.bal = [a \in DOMAIN base.bal |-> IF a = cb THEN amount ELSE 0]]

(* Zephyria.applyTransaction *)
ApplyTransactionCall ==
    /\ fin.op = "none"
    /\ \E cb \in Addrs, k \in 0 .. 1, amount \in {0, MaxBalance}, mining \in BOOLEAN :
        LET header == WellFormed(chain, cb, now)
        IN \E msg \in SystemMessages(cb, amount), env \in CallEnvs(header) :
            \E received \in ReceivedFor(msg, k) :
              LET before == ctxAfter(k, amount, cb, received)
                  after == applyTransaction(before, msg, mining, val, env)
              IN fin' = [op |-> "applyTransaction", msg |-> msg, mining |-> mining,
                         val |-> val, before |-> before, after |-> after]
    /\ UNCHANGED <<storeVars, lockVars, chainVars, verifyVars, sealVars, batchVars>>

NextApply ==
    \/ (fin.op = "none" /\ Authorize)
    \/ ApplyTransactionCall
    \/ FinReturn

SpecApply == InitFin /\ [][NextApply]_vars

(* the call ran in verifying mode: it did not sign the transaction itself *)
Verifying == fin.op = "applyTransaction" /\ ~(fin.msg.from = fin.val /\ fin.mining)

(* the head of the received list is absent, nil, or of another signing hash *)
NoMatchingTx ==
    LET b == fin.before
    IN \/ Len(b.received) = 0
       \/ Head(b.received) = NilTx
       \/ TxHash(Head(b.received))
            # TxHash(NewTransaction(b.nonce, fin.msg.to, fin.msg.value, fin.msg.data))

(* C39: in verifying mode, when applyTransaction finds no received transaction or one
   whose signed hash differs from the expected one, it returns an error and leaves the
   received list, the transactions, the receipts, usedGas, the balances and the
   coinbase nonce unchanged; when it returns nil it has consumed exactly one received
   transaction, appended exactly one transaction and one receipt, and incremented the
   coinbase nonce by exactly 1. *)
C39_ApplyTransactionFrame ==
    Verifying =>
        LET b == fin.before
            a == fin.after
        IN /\ NoMatchingTx => (a.err # Nil /\ [a EXCEPT !.err = Nil] = b)
           /\ a.err = Nil =>
                /\ ~NoMatchingTx
                /\ a.received = Tail(b.received)
                /\ a.txs = Append(b.txs, Head(b.received))
                /\ Len(a.receipts) = Len(b.receipts) + 1
                /\ SubSeq(a.receipts, 1, Len(b.receipts)) = b.receipts
                /\ a.receipts[Len(a.receipts)].txHash = TxHash(Head(b.received))
                /\ a.nonce = b.nonce + 1

C39_Witness ==
    /\ Verifying
    /\ fin.after.err = Nil
    /\ Len(fin.before.received) = 2
    /\ Len(fin.after.received) = 1
    /\ Len(fin.after.txs) = 2
    /\ fin.after.nonce = 2

C39_WitnessMismatch ==
    /\ Verifying
    /\ ~(Len(fin.before.received) = 0)
    /\ NoMatchingTx
    /\ fin.after.err = errTxHash

----------------------------------------------------------------------------
(* The genesis header before verifyHeader *)

(* the header passes every check of verifyHeader that reads the header alone *)
StructurallyValid(h) ==
    /\ ~EarlyViolation(h)
    /\ h.baseFee = Nil
    /\ h.withdrawalsHash = Nil

(* C40: the genesis block is always valid: VerifyHeader accepts a header with number
   0 that passes the structural checks, without requiring a parent or a snapshot. *)
C40_GenesisAlwaysValid ==
    (fin.op = "verifyHeader" /\ fin.header.number = 0 /\ StructurallyValid(fin.header))
        => fin.err = Nil

(* verifyCascadingFields alone accepts the genesis header, and verifyHeader answers
   the genesis header of the chain with ErrUnknownAncestor *)
GenesisNeedsParent ==
    (fin.op = "verifyHeader" /\ fin.header.number = 0 /\ StructurallyValid(fin.header))
        => /\ verifyCascadingFields(chain, fin.header, <<>>, fakeDiff) = Nil
           /\ fin.err = ErrUnknownAncestor

(* the engine calls, one at a time *)
NextEngine ==
    \/ (fin.op = "none" /\ Tick)
    \/ (fin.op = "none" /\ Authorize)
    \/ ImportEpochHeader
    \/ PrepareCall
    \/ CalcDifficultyCall
    \/ VerifyHeaderCall
    \/ FinReturn

SpecEngine == InitEngine /\ [][NextEngine]_vars

====
